---------------------------- MODULE Spec2Model ----------------------------
(***************************************************************************)
(* The transcription pipeline of algo-whisperer: the POST /transcribe      *)
(* handler (server/routes/transcribe.js) and the ffmpeg helpers it calls   *)
(* (server/lib/ffmpeg.js).                                                 *)
(*                                                                         *)
(* Times are whole seconds, sizes whole bytes.  A step of the model is one *)
(* task of the Node event loop: everything the handler does between two    *)
(* awaits is one action.                                                   *)
(***************************************************************************)
EXTENDS Integers, Sequences, FiniteSets, TLC

(***************************************************************************)
(* Program constants (transcribe.js lines 10-14).                          *)
(***************************************************************************)
MAX_FILE_SIZE_MB == 24
MAX_DURATION_SECONDS == 1200
MAX_CHUNK_DURATION_SECONDS == 900
CHUNK_OVERLAP_SECONDS == 30
DEFAULT_CHUNK_MINUTES == 4

(***************************************************************************)
(* Bounds of the model.                                                    *)
(***************************************************************************)
\* Segments in one backend response.
MaxSegs == 2
\* Chunks a modelled run is split into: longer sources are not drawn.
MaxChunks == 3
\* Segments in each argument of a stand-alone mergeChunkSegments call.
MaxMergeLen == 2

\* chunkMinutes values of the request body; 0 stands for an absent (falsy) one.
ChunkMinutesInputs == {0, 1, 4, 20}
\* Durations (seconds) the extracted audio may have.
Durations == {45, 60, 90, 91, 100, 120, 240, 360, 361, 460, 480, 660,
              900, 1200, 1201, 1350, 1351, 150}
\* Sizes (bytes) the extracted audio may have: small, exactly 24 MB, one more.
FileSizes == {1000000, 24 * 1024 * 1024, 24 * 1024 * 1024 + 1}
\* Messages a failing collaborator (ffmpeg, ffprobe, the API) may carry.
ErrorMessages == {"api error", "Request timeout", "file too large"}

Min(a, b) == IF a <= b THEN a ELSE b
Max(a, b) == IF a >= b THEN a ELSE b

(***************************************************************************)
(* Files.  The handler works on `${sessionId}.mp3` and the splitter on     *)
(* `${baseName}_chunk_${k}.mp3`; the uploaded video is never written.      *)
(***************************************************************************)
VideoPath == <<"video", 0>>
AudioPath == <<"audio", 0>>
ChunkPath(chunkIndex) == <<"chunk", chunkIndex>>

\* fs.existsSync + fs.unlinkSync.
\* reject(err) without the safeDelete before it.
safeDeleteNothing(d, filePath) == d

safeDelete(d, filePath) == d \ {filePath}

cleanupFilesFirstOnly(filePaths, d) ==
    IF filePaths = <<>> THEN d ELSE d \ {filePaths[1]}
\* Deletes every listed path that exists.
cleanupFiles(filePaths, d) == d \ {filePaths[i] : i \in DOMAIN filePaths}

(***************************************************************************)
(* The chunking decision.                                                  *)
(***************************************************************************)
ChunkDurationSeconds(cm) ==
    LET userChunkMinutes == IF cm = 0 THEN DEFAULT_CHUNK_MINUTES ELSE cm
        userChunkSeconds == userChunkMinutes * 60
    IN  Min(userChunkSeconds, MAX_CHUNK_DURATION_SECONDS)

\* audioFileSize / (1024 * 1024) > MAX_FILE_SIZE_MB, without the division.
ExceedsHardLimits(duration, size) ==
    \/ duration > MAX_DURATION_SECONDS
    \/ size > MAX_FILE_SIZE_MB * 1024 * 1024

BenefitsFromParallelAtLeast(duration, chunkSeconds) ==
    2 * duration >= 3 * chunkSeconds
\* audioDuration > chunkDurationSeconds * 1.5, without the fraction.
BenefitsFromParallel(duration, chunkSeconds) ==
    2 * duration > 3 * chunkSeconds

NeedsChunking(duration, size, chunkSeconds) ==
    ExceedsHardLimits(duration, size) \/ BenefitsFromParallel(duration, chunkSeconds)

(***************************************************************************)
(* splitAudioIntoChunks, one loop iteration at a time.                     *)
(***************************************************************************)
IsShortAudioStrict(duration, chunkSeconds) == duration < chunkSeconds
\* The early return: no split needed.
IsShortAudio(duration, chunkSeconds) == duration <= chunkSeconds

OriginalChunk(duration) ==
    [path |-> AudioPath, startTime |-> 0, endTime |-> duration, isOriginal |-> TRUE]

ChunkEndTime(start, chunkSeconds, duration) == Min(start + chunkSeconds, duration)

NextStartTimeNoOverlap(endTime, overlapSeconds) == endTime
NextStartTime(endTime, overlapSeconds) == endTime - overlapSeconds

\* The break after a chunk was pushed.
RemainderIsShort(duration, start, overlapSeconds) ==
    duration - start < overlapSeconds * 2

\* Lines 182-186: the paths of the chunks that are files of their own.
RECURSIVE TrackChunkFiles(_)
TrackChunkFiles(cs) ==
    IF cs = <<>> THEN <<>>
    ELSE (IF cs[1].isOriginal THEN <<>> ELSE <<cs[1].path>>)
         \o TrackChunkFiles(Tail(cs))

(***************************************************************************)
(* mergeChunkSegments.                                                     *)
(***************************************************************************)
mergeChunkSegmentsNoTolerance(existingSegments, newSegments, chunkStartTime, overlapSeconds) ==
    IF Len(existingSegments) = 0 THEN newSegments
    ELSE SelectSeq(existingSegments, LAMBDA seg : seg.end <= chunkStartTime)
         \o SelectSeq(newSegments, LAMBDA seg : seg.start >= chunkStartTime)
mergeChunkSegmentsStrict(existingSegments, newSegments, chunkStartTime, overlapSeconds) ==
    IF Len(existingSegments) = 0 THEN newSegments
    ELSE SelectSeq(existingSegments, LAMBDA seg : seg.end < chunkStartTime + 1)
         \o SelectSeq(newSegments, LAMBDA seg : seg.start > chunkStartTime - 1)
mergeChunkSegmentsWholeOverlap(existingSegments, newSegments, chunkStartTime, overlapSeconds) ==
    IF Len(existingSegments) = 0
    THEN newSegments
    ELSE SelectSeq(existingSegments, LAMBDA seg : seg.end <= chunkStartTime + overlapSeconds)
            \o SelectSeq(newSegments, LAMBDA seg : seg.start >= chunkStartTime - 1)

mergeChunkSegmentsNewAfterOverlap(existingSegments, newSegments, chunkStartTime, overlapSeconds) ==
    IF Len(existingSegments) = 0 THEN newSegments
    ELSE SelectSeq(existingSegments, LAMBDA seg : seg.end <= chunkStartTime + 1)
         \o SelectSeq(newSegments, LAMBDA seg : seg.start >= chunkStartTime + overlapSeconds - 1)

mergeChunkSegments(existingSegments, newSegments, chunkStartTime, overlapSeconds) ==
    IF Len(existingSegments) = 0 THEN newSegments
    ELSE LET overlapStart == chunkStartTime
             filteredExisting ==
                 SelectSeq(existingSegments, LAMBDA seg : seg.end <= overlapStart + 1)
             filteredNew ==
                 SelectSeq(newSegments, LAMBDA seg : seg.start >= overlapStart - 1)
         IN  filteredExisting \o filteredNew

(***************************************************************************)
(* processTranscription.                                                   *)
(***************************************************************************)
UpperLetters ==
    {"A", "B", "C", "D", "E", "F", "G", "H", "I", "J", "K", "L", "M",
     "N", "O", "P", "Q", "R", "S", "T", "U", "V", "W", "X", "Y", "Z"}
\* /[A-Z]/.test(speaker): any string holding an uppercase letter.
IsGenericLabelUnanchored(speaker) == speaker \in UpperLetters \cup {"AB", "Dana"}

\* /^[A-Z]$/.test(speaker)
IsGenericLabel(speaker) == speaker \in UpperLetters

DefaultUnknownLabels == <<"Interviewer", "Speaker A", "Speaker B", "Speaker C">>

\* unknownLabels[0] || `Speaker ${speaker}`: the first label for every code.
FallbackLabelFirst(unknownLabels, unknownIndex, speaker) ==
    IF 1 <= Len(unknownLabels) /\ unknownLabels[1] # ""
    THEN unknownLabels[1]
    ELSE "Speaker " \o speaker

\* unknownLabels[unknownIndex] || `Speaker ${speaker}` (unknownIndex is 0-based).
FallbackLabel(unknownLabels, unknownIndex, speaker) ==
    IF unknownIndex + 1 <= Len(unknownLabels) /\ unknownLabels[unknownIndex + 1] # ""
    THEN unknownLabels[unknownIndex + 1]
    ELSE "Speaker " \o speaker

RECURSIVE processSegments(_, _, _, _, _)
processSegments(segments, index, speakerMap, unknownIndex, unknownLabels) ==
    IF index > Len(segments) THEN <<>>
    ELSE LET segment == segments[index]
             raw == IF segment.speaker = "" THEN "Unknown" ELSE segment.speaker
             generic == IsGenericLabel(raw)
             unseen == generic /\ (raw \notin DOMAIN speakerMap \/ speakerMap[raw] = "")
             map2 == IF unseen
                     THEN [c \in DOMAIN speakerMap \cup {raw} |->
                             IF c = raw THEN FallbackLabel(unknownLabels, unknownIndex, raw)
                             ELSE speakerMap[c]]
                     ELSE speakerMap
             idx2 == IF unseen THEN unknownIndex + 1 ELSE unknownIndex
             speaker == IF generic THEN map2[raw] ELSE raw
         IN  <<[id |-> index - 1, start |-> segment.start, end |-> segment.end,
                text |-> segment.text, speaker |-> speaker]>>
             \o processSegments(segments, index + 1, map2, idx2, unknownLabels)

\* id: index + 1 in place of id: index.
processTranscriptionOneBased(segments, unknownLabels) ==
    LET out == processSegments(segments, 1, [c \in {} |-> ""], 0, unknownLabels)
    IN  [i \in DOMAIN out |-> [out[i] EXCEPT !.id = i]]

processTranscription(segments, unknownLabels) ==
    processSegments(segments, 1, [c \in {} |-> ""], 0, unknownLabels)


(***************************************************************************)
(* The error message the handler answers with (lines 283-288).  The two    *)
(* String.includes tests are tabulated over ErrorMessages.                 *)
(***************************************************************************)
MentionsTimeout(message) == message \in {"Request timeout"}
MentionsTooLarge(message) == message \in {"file too large"}

ErrorMessage(message) ==
    IF MentionsTimeout(message)
    THEN "Transcription timed out. The audio file may be too long. Try a shorter video."
    ELSE IF MentionsTooLarge(message)
         THEN "Audio file too large for transcription API. Try a shorter video."
         ELSE message

(***************************************************************************)
(* The transcription backend: what one call may answer for a file of       *)
(* `len` seconds.  Segment times are relative to the file; the boundaries  *)
(* drawn are the file's ends and the last second the merge tolerates past  *)
(* the seam with the next chunk.                                           *)
(***************************************************************************)
Word(i) ==
    CASE i = 0 -> "alpha" [] i = 1 -> "bravo" [] i = 2 -> "charlie" [] OTHER -> "delta"

TimePoints(len) ==
    {t \in {0, len - CHUNK_OVERLAP_SECONDS + 1, len} : t >= 0}

BackendSegments(i, len) ==
    {[start |-> s, end |-> e, text |-> Word(i),
      speaker |-> IF s = 0 THEN "A" ELSE "Dana"] :
        <<s, e>> \in {p \in TimePoints(len) \X TimePoints(len) : p[1] < p[2]}}

BackendResults(i, len) ==
    {segs \in UNION {[1..n -> BackendSegments(i, len)] : n \in 0..MaxSegs} :
        \A k \in 1..(Len(segs) - 1) : segs[k].end <= segs[k + 1].start}

(***************************************************************************)
(* State.                                                                  *)
(***************************************************************************)
VARIABLES
    pc,                   \* where the handler is suspended
    chunkMinutes,         \* req.body.chunkMinutes
    disk,                 \* the files that exist in the uploads directory
    created,              \* history: every path this run has written
    fileDuration,         \* the extracted audio's duration, as ffprobe reports it
    fileSize,             \* the extracted audio's size in bytes
    audioDuration,        \* the handler's local
    chunkDurationSeconds, \* the handler's local
    needsChunking,        \* the handler's local
    chunkFiles,           \* the handler's local: paths to clean up
    chunks,               \* splitAudioIntoChunks' local
    startTime,            \* splitAudioIntoChunks' local
    chunkIndex,           \* splitAudioIntoChunks' local
    calls,                \* the transcribeAudioFile calls, in launch order
    completionOrder,      \* history: the calls in the order they settled
    responses,            \* what was sent on res
    caught,               \* history: the message of the error the catch block got
    failedAt,             \* history: the stage the run failed from
    mpc, mExisting, mNew, mChunkStart, mOverlap, mResult,
                          \* a stand-alone mergeChunkSegments call
    lpc, lChunks, lResults, lOut,
                          \* a stand-alone run of the merge loop
    npc, nSegments, nLabels, nOut,
                          \* a stand-alone processTranscription call
    rpc, rSession, rDuration, rChunks, rChunkFiles, rDisk, rCollisions,
                          \* two requests being served at once
    cpc, cOutcome, cFiles, cDisk, cLocked, cAttempted, cLogged, cResponse,
                          \* the end of a run whose unlinks may fail
    rlNow, requestCounts, rlPassed, rlSeen, rlTrail,
                          \* the rate limiters in front of the routes
    upKnown, upTotal, upReceived, upDirExists, upDir, upFinal, upWrites, upAsm, upCancel, upLog,
                          \* one chunked upload (routes/chunked-upload.js)
    plState, plItems, plLimit, plNext, plExecuting, plInvoked, plSettled, plFailed,
                          \* one Uploader.parallelLimit call (public/js/uploader.js)
    spc, sQuarters, sDuration, sChunkSeconds, sStart, sPrev, sCount,
                          \* the loop of splitAudioIntoChunks for any chunkMinutes
    opc, oNow, oDisk, activeSessions, oRemoved
                          \* cleanupOldFiles beside a /transcribe run

pvars == <<pc, chunkMinutes, disk, created, fileDuration, fileSize, audioDuration,
           chunkDurationSeconds, needsChunking, chunkFiles, chunks, startTime,
           chunkIndex, calls, completionOrder, responses, caught, failedAt>>
mvars == <<mpc, mExisting, mNew, mChunkStart, mOverlap, mResult>>
lvars == <<lpc, lChunks, lResults, lOut>>
nvars == <<npc, nSegments, nLabels, nOut>>
rvars == <<rpc, rSession, rDuration, rChunks, rChunkFiles, rDisk, rCollisions>>
cvars == <<cpc, cOutcome, cFiles, cDisk, cLocked, cAttempted, cLogged, cResponse>>
qvars == <<rlNow, requestCounts, rlPassed, rlSeen, rlTrail>>
uvars == <<upKnown, upTotal, upReceived, upDirExists, upDir, upFinal, upWrites, upAsm, upCancel, upLog>>
kvars == <<plState, plItems, plLimit, plNext, plExecuting, plInvoked, plSettled, plFailed>>
svars == <<spc, sQuarters, sDuration, sChunkSeconds, sStart, sPrev, sCount>>
ovars == <<opc, oNow, oDisk, activeSessions, oRemoved>>
vars == <<pvars, mvars, lvars, nvars, rvars, cvars, qvars, uvars, kvars, svars, ovars>>

\* What the steps of one part of the model leave alone.
notPipeline == <<mvars, lvars, nvars, rvars, cvars, qvars, uvars, kvars, svars, ovars>>
notMerge == <<pvars, lvars, nvars, rvars, cvars, qvars, uvars, kvars, svars, ovars>>
notLoop == <<pvars, mvars, nvars, rvars, cvars, qvars, uvars, kvars, svars, ovars>>
notNormalize == <<pvars, mvars, lvars, rvars, cvars, qvars, uvars, kvars, svars, ovars>>
notTwoRuns == <<pvars, mvars, lvars, nvars, cvars, qvars, uvars, kvars, svars, ovars>>
notCleanup == <<pvars, mvars, lvars, nvars, rvars, qvars, uvars, kvars, svars, ovars>>
notRateLimit == <<pvars, mvars, lvars, nvars, rvars, cvars, uvars, kvars, svars, ovars>>
notUpload == <<pvars, mvars, lvars, nvars, rvars, cvars, qvars, kvars, svars, ovars>>
notParallel == <<pvars, mvars, lvars, nvars, rvars, cvars, qvars, uvars, svars, ovars>>
notSplit == <<pvars, mvars, lvars, nvars, rvars, cvars, qvars, uvars, kvars, ovars>>
notOldFiles == <<pvars, mvars, lvars, nvars, rvars, cvars, qvars, uvars, kvars, svars>>

PipelineIdle ==
    /\ pc = "idle"
    /\ chunkMinutes = 0
    /\ disk = {VideoPath}
    /\ created = {}
    /\ fileDuration = 0
    /\ fileSize = 0
    /\ audioDuration = 0
    /\ chunkDurationSeconds = 0
    /\ needsChunking = FALSE
    /\ chunkFiles = <<>>
    /\ chunks = <<>>
    /\ startTime = 0
    /\ chunkIndex = 0
    /\ calls = <<>>
    /\ completionOrder = <<>>
    /\ responses = <<>>
    /\ caught = ""
    /\ failedAt = ""

MergeIdle ==
    /\ mpc = "idle"
    /\ mExisting = <<>>
    /\ mNew = <<>>
    /\ mChunkStart = 0
    /\ mOverlap = 0
    /\ mResult = <<>>

LoopIdle ==
    /\ lpc = "idle"
    /\ lChunks = <<>>
    /\ lResults = <<>>
    /\ lOut = <<>>

NormalizeIdle ==
    /\ npc = "idle"
    /\ nSegments = <<>>
    /\ nLabels = <<>>
    /\ nOut = <<>>

Runs == {1, 2}

TwoRunsIdle ==
    /\ rpc = [r \in Runs |-> "idle"]
    /\ rSession = [r \in Runs |-> ""]
    /\ rDuration = [r \in Runs |-> 0]
    /\ rChunks = [r \in Runs |-> <<>>]
    /\ rChunkFiles = [r \in Runs |-> <<>>]
    /\ rDisk = {}
    /\ rCollisions = {}

CleanupIdle ==
    /\ cpc = "idle"
    /\ cOutcome = ""
    /\ cFiles = <<>>
    /\ cDisk = {}
    /\ cLocked = {}
    /\ cAttempted = <<>>
    /\ cLogged = <<>>
    /\ cResponse = <<>>

RateLimitIdle ==
    /\ rlNow = 0
    /\ requestCounts = <<>>
    /\ rlPassed = <<>>
    /\ rlSeen = <<>>
    /\ rlTrail = <<>>

UploadIdle ==
    /\ upKnown = FALSE
    /\ upTotal = 0
    /\ upReceived = {}
    /\ upDirExists = FALSE
    /\ upDir = <<>>
    /\ upFinal = <<>>
    /\ upWrites = {}
    /\ upAsm = <<>>
    /\ upCancel = "idle"
    /\ upLog = {}

ParallelIdle ==
    /\ plState = "idle"
    /\ plItems = 0
    /\ plLimit = 0
    /\ plNext = 0
    /\ plExecuting = {}
    /\ plInvoked = <<>>
    /\ plSettled = {}
    /\ plFailed = {}

SplitIdle ==
    /\ spc = "idle"
    /\ sQuarters = 0
    /\ sDuration = 0
    /\ sChunkSeconds = 0
    /\ sStart = 0
    /\ sPrev = 0
    /\ sCount = 0

OldFilesIdle ==
    /\ opc = "idle"
    /\ oNow = 0
    /\ oDisk = [f \in {} |-> 0]
    /\ activeSessions = {}
    /\ oRemoved = {}

Init == PipelineIdle /\ MergeIdle /\ LoopIdle /\ NormalizeIdle /\ TwoRunsIdle /\ CleanupIdle /\ RateLimitIdle /\ UploadIdle /\ ParallelIdle /\ SplitIdle /\ OldFilesIdle

(***************************************************************************)
(* The catch block: clean up, then answer 500.  `d` is the disk as the     *)
(* failing step left it.                                                   *)
(***************************************************************************)
Catch(message, stage, d) ==
    /\ disk' = cleanupFiles(<<AudioPath>> \o chunkFiles, d)
    /\ responses' = Append(responses, [status |-> 500, error |-> ErrorMessage(message)])
    /\ caught' = message
    /\ failedAt' = stage
    /\ pc' = "failed"

InFlight(filePath) ==
    [status |-> "inflight", file |-> filePath, segments |-> <<>>, duration |-> 0, error |-> ""]

(***************************************************************************)
(* Lines 199-229: Promise.all's values, the sort, the merge loop.          *)
(***************************************************************************)
\* Promise.all resolves to the values in the order of the promises given.
PromiseAllValues(cs, cl) ==
    [i \in 1..Len(cs) |->
        [index |-> i - 1, chunk |-> cs[i],
         result |-> [segments |-> cl[i].segments, duration |-> cl[i].duration]]]

SortByIndexDescending(results) ==
    [k \in 1..Len(results) |->
        CHOOSE r \in {results[j] : j \in DOMAIN results} :
            Cardinality({j \in DOMAIN results : results[j].index > r.index}) = k - 1]
\* transcriptionResults.sort((a, b) => a.index - b.index)
SortByIndex(results) ==
    [k \in 1..Len(results) |->
        CHOOSE r \in {results[j] : j \in DOMAIN results} :
            Cardinality({j \in DOMAIN results : results[j].index < r.index}) = k - 1]

AdjustSegments(segments, chunkStart) ==
    [k \in DOMAIN segments |->
        [segments[k] EXCEPT !.start = @ + chunkStart, !.end = @ + chunkStart]]

RECURSIVE MergeLoop(_, _, _, _)
MergeLoop(results, k, allSegments, totalDuration) ==
    IF k > Len(results)
    THEN [segments |-> allSegments, duration |-> totalDuration]
    ELSE LET chunk == results[k].chunk
             result == results[k].result
             adjustedSegments == AdjustSegments(result.segments, chunk.startTime)
         IN  MergeLoop(results, k + 1,
                       mergeChunkSegments(allSegments, adjustedSegments,
                                          chunk.startTime, CHUNK_OVERLAP_SECONDS),
                       Max(totalDuration, result.duration + chunk.startTime))

\* Math.ceil(audioDuration / chunkDurationSeconds), chunked or not.
ChunksUsedAlwaysCeil(chunked, duration, chunkSeconds) ==
    (duration + chunkSeconds - 1) \div chunkSeconds

\* needsChunking ? Math.ceil(audioDuration / chunkDurationSeconds) : 1
ChunksUsed(chunked, duration, chunkSeconds) ==
    IF chunked THEN (duration + chunkSeconds - 1) \div chunkSeconds ELSE 1

\* Lines 259-271: normalize, clean up, answer.
Respond(raw, d) ==
    /\ disk' = cleanupFiles(<<AudioPath>> \o chunkFiles, d)
    /\ responses' = Append(responses,
           [status |-> 200, success |-> TRUE,
            transcript |-> processTranscription(raw.segments, DefaultUnknownLabels),
            raw |-> raw,
            chunked |-> needsChunking,
            chunksUsed |-> ChunksUsed(needsChunking, audioDuration, chunkDurationSeconds)])
    /\ pc' = "done"
    /\ UNCHANGED <<caught, failedAt>>


PromiseAllSettledState(cl) ==
    IF \E j \in DOMAIN cl : cl[j].status = "inflight" THEN "pending" ELSE "fulfilled"
\* Promise.all: rejected as soon as one promise is, fulfilled once all are.
PromiseAllState(cl) ==
    IF \E j \in DOMAIN cl : cl[j].status = "failed" THEN "rejected"
    ELSE IF \A j \in DOMAIN cl : cl[j].status = "ok" THEN "fulfilled"
    ELSE "pending"

\* Lines 179-207: track the chunk files, launch one call per chunk.
Dispatch(cs) ==
    /\ chunks' = cs
    /\ chunkFiles' = TrackChunkFiles(cs)
    /\ calls' = [i \in 1..Len(cs) |-> InFlight(cs[i].path)]
    /\ pc' = "dispatching"

\* The sources the model draws: those the splitter cuts into at most MaxChunks.
WithinModel(duration, chunkSeconds) ==
    duration - CHUNK_OVERLAP_SECONDS <= MaxChunks * (chunkSeconds - CHUNK_OVERLAP_SECONDS)

(***************************************************************************)
(* The handler, POST /transcribe.                                          *)
(***************************************************************************)
StartTranscribe(cm) ==
    /\ pc = "idle"
    /\ pc' = "extracting"
    /\ chunkMinutes' = cm
    /\ chunkFiles' = <<>>
    /\ UNCHANGED <<disk, created, fileDuration, fileSize, audioDuration,
                   chunkDurationSeconds, needsChunking, chunks, startTime, chunkIndex,
                   calls, completionOrder, responses, caught, failedAt>>
    /\ UNCHANGED notPipeline

\* ffmpeg has begun to write the output of extractAudio.
FfmpegWritesAudio ==
    /\ pc = "extracting"
    /\ AudioPath \notin disk
    /\ disk' = disk \cup {AudioPath}
    /\ created' = created \cup {AudioPath}
    /\ UNCHANGED <<pc, chunkMinutes, fileDuration, fileSize, audioDuration,
                   chunkDurationSeconds, needsChunking, chunkFiles, chunks, startTime,
                   chunkIndex, calls, completionOrder, responses, caught, failedAt>>
    /\ UNCHANGED notPipeline

\* extractAudio resolves: the audio file is complete.
ExtractAudioEnd(duration, size) ==
    /\ pc = "extracting"
    /\ WithinModel(duration, ChunkDurationSeconds(chunkMinutes))
    /\ disk' = disk \cup {AudioPath}
    /\ created' = created \cup {AudioPath}
    /\ fileDuration' = duration
    /\ fileSize' = size
    /\ pc' = "probing"
    /\ UNCHANGED <<chunkMinutes, audioDuration, chunkDurationSeconds, needsChunking,
                   chunkFiles, chunks, startTime, chunkIndex, calls, completionOrder,
                   responses, caught, failedAt>>
    /\ UNCHANGED notPipeline

\* extractAudio rejects: its error handler deletes the partial output first.
ExtractAudioError(message) ==
    /\ pc = "extracting"
    /\ Catch(message, "extracting", safeDelete(disk, AudioPath))
    /\ UNCHANGED <<chunkMinutes, created, fileDuration, fileSize, audioDuration,
                   chunkDurationSeconds, needsChunking, chunkFiles, chunks, startTime,
                   chunkIndex, calls, completionOrder>>
    /\ UNCHANGED notPipeline

\* getAudioDuration resolves; lines 126-170 run up to the next await.
ProbeEnd ==
    /\ pc = "probing"
    /\ audioDuration' = fileDuration
    /\ chunkDurationSeconds' = ChunkDurationSeconds(chunkMinutes)
    /\ needsChunking' = NeedsChunking(fileDuration, fileSize, ChunkDurationSeconds(chunkMinutes))
    /\ IF needsChunking'
       THEN pc' = "splitProbe" /\ calls' = calls
       ELSE pc' = "single" /\ calls' = <<InFlight(AudioPath)>>
    /\ UNCHANGED <<chunkMinutes, disk, created, fileDuration, fileSize, chunkFiles,
                   chunks, startTime, chunkIndex, completionOrder, responses, caught,
                   failedAt>>
    /\ UNCHANGED notPipeline

ProbeError(message) ==
    /\ pc = "probing"
    /\ Catch(message, "probing", disk)
    /\ UNCHANGED <<chunkMinutes, created, fileDuration, fileSize, audioDuration,
                   chunkDurationSeconds, needsChunking, chunkFiles, chunks, startTime,
                   chunkIndex, calls, completionOrder>>
    /\ UNCHANGED notPipeline

(***************************************************************************)
(* splitAudioIntoChunks.                                                   *)
(***************************************************************************)
\* Its own getAudioDuration resolves: return the original, or enter the loop.
SplitProbeEnd ==
    /\ pc = "splitProbe"
    /\ IF IsShortAudio(fileDuration, chunkDurationSeconds)
       THEN /\ Dispatch(<<OriginalChunk(fileDuration)>>)
            /\ UNCHANGED <<startTime, chunkIndex>>
       ELSE /\ startTime' = 0
            /\ chunkIndex' = 0
            /\ chunks' = <<>>
            /\ pc' = "splitting"
            /\ UNCHANGED <<chunkFiles, calls>>
    /\ UNCHANGED <<chunkMinutes, disk, created, fileDuration, fileSize, audioDuration,
                   chunkDurationSeconds, needsChunking, completionOrder, responses,
                   caught, failedAt>>
    /\ UNCHANGED notPipeline

SplitProbeError(message) ==
    /\ pc = "splitProbe"
    /\ Catch(message, "splitting", disk)
    /\ UNCHANGED <<chunkMinutes, created, fileDuration, fileSize, audioDuration,
                   chunkDurationSeconds, needsChunking, chunkFiles, chunks, startTime,
                   chunkIndex, calls, completionOrder>>
    /\ UNCHANGED notPipeline

\* ffmpeg has begun to write the sub-clip of the current iteration.
FfmpegWritesChunk ==
    /\ pc = "splitting"
    /\ ChunkPath(chunkIndex) \notin disk
    /\ disk' = disk \cup {ChunkPath(chunkIndex)}
    /\ created' = created \cup {ChunkPath(chunkIndex)}
    /\ UNCHANGED <<pc, chunkMinutes, fileDuration, fileSize, audioDuration,
                   chunkDurationSeconds, needsChunking, chunkFiles, chunks, startTime,
                   chunkIndex, calls, completionOrder, responses, caught, failedAt>>
    /\ UNCHANGED notPipeline

\* The sub-clip is complete: lines 98-112, then the next iteration or the return.
SplitChunkEnd ==
    /\ pc = "splitting"
    /\ LET chunkPath == ChunkPath(chunkIndex)
           endTime == ChunkEndTime(startTime, chunkDurationSeconds, fileDuration)
           pushed == Append(chunks, [path |-> chunkPath, startTime |-> startTime,
                                     endTime |-> endTime, isOriginal |-> FALSE])
           next == NextStartTime(endTime, CHUNK_OVERLAP_SECONDS)
       IN  /\ disk' = disk \cup {chunkPath}
           /\ created' = created \cup {chunkPath}
           /\ chunkIndex' = chunkIndex + 1
           /\ startTime' = next
           /\ IF RemainderIsShort(fileDuration, next, CHUNK_OVERLAP_SECONDS)
                 \/ ~(next < fileDuration)
              THEN Dispatch(pushed)
              ELSE /\ chunks' = pushed
                   /\ UNCHANGED <<pc, chunkFiles, calls>>
    /\ UNCHANGED <<chunkMinutes, fileDuration, fileSize, audioDuration,
                   chunkDurationSeconds, needsChunking, completionOrder, responses,
                   caught, failedAt>>
    /\ UNCHANGED notPipeline

\* ffmpeg fails on the current sub-clip: safeDelete(chunkPath), then reject.
SplitChunkError(message) ==
    /\ pc = "splitting"
    /\ Catch(message, "splitting", safeDelete(disk, ChunkPath(chunkIndex)))
    /\ UNCHANGED <<chunkMinutes, created, fileDuration, fileSize, audioDuration,
                   chunkDurationSeconds, needsChunking, chunkFiles, chunks, startTime,
                   chunkIndex, calls, completionOrder>>
    /\ UNCHANGED notPipeline

(***************************************************************************)
(* The chunk calls settle, in any order.  A call that settles after the    *)
(* handler has left the await settles a promise nobody reads: its value is *)
(* not recorded.                                                           *)
(***************************************************************************)
ChunkLength(i) == chunks[i].endTime - chunks[i].startTime

ChunkTranscribed(i) ==
    /\ pc \in {"dispatching", "failed"}
    /\ i \in DOMAIN calls
    /\ calls[i].status = "inflight"
    /\ \E segments \in BackendResults(i - 1, ChunkLength(i)) :
       /\ pc = "failed" => segments = <<>>
       /\ LET settled == [calls EXCEPT ![i] = [status |-> "ok", file |-> calls[i].file,
                                               segments |-> segments,
                                               duration |-> ChunkLength(i), error |-> ""]]
          IN  /\ calls' = settled
              /\ completionOrder' = Append(completionOrder, i - 1)
              /\ IF pc = "dispatching" /\ PromiseAllState(settled) = "fulfilled"
                 THEN Respond(MergeLoop(SortByIndex(PromiseAllValues(chunks, settled)),
                                        1, <<>>, 0), disk)
                 ELSE UNCHANGED <<pc, disk, responses, caught, failedAt>>
    /\ UNCHANGED <<chunkMinutes, created, fileDuration, fileSize, audioDuration,
                   chunkDurationSeconds, needsChunking, chunkFiles, chunks, startTime,
                   chunkIndex>>
    /\ UNCHANGED notPipeline

ChunkFailed(i, message) ==
    /\ pc \in {"dispatching", "failed"}
    /\ i \in DOMAIN calls
    /\ calls[i].status = "inflight"
    /\ LET settled == [calls EXCEPT ![i] = [status |-> "failed", file |-> calls[i].file,
                                            segments |-> <<>>,
                                            duration |-> 0, error |-> message]]
       IN  /\ calls' = settled
           /\ completionOrder' = Append(completionOrder, i - 1)
           /\ IF pc = "dispatching" /\ PromiseAllState(settled) = "rejected"
              THEN Catch(message, "dispatching", disk)
              ELSE IF pc = "dispatching" /\ PromiseAllState(settled) = "fulfilled"
                   THEN Respond(MergeLoop(SortByIndex(PromiseAllValues(chunks, settled)),
                                          1, <<>>, 0), disk)
                   ELSE UNCHANGED <<pc, disk, responses, caught, failedAt>>
    /\ UNCHANGED <<chunkMinutes, created, fileDuration, fileSize, audioDuration,
                   chunkDurationSeconds, needsChunking, chunkFiles, chunks, startTime,
                   chunkIndex>>
    /\ UNCHANGED notPipeline

(***************************************************************************)
(* The unchunked branch: one call on the whole audio file (lines 243-251). *)
(***************************************************************************)
SingleTranscribed(segments) ==
    /\ pc = "single"
    /\ calls' = <<[status |-> "ok", file |-> calls[1].file, segments |-> segments,
                   duration |-> audioDuration, error |-> ""]>>
    /\ completionOrder' = Append(completionOrder, 0)
    /\ Respond([segments |-> segments, duration |-> audioDuration], disk)
    /\ UNCHANGED <<chunkMinutes, created, fileDuration, fileSize, audioDuration,
                   chunkDurationSeconds, needsChunking, chunkFiles, chunks, startTime,
                   chunkIndex>>
    /\ UNCHANGED notPipeline

SingleFailed(message) ==
    /\ pc = "single"
    /\ calls' = <<[status |-> "failed", file |-> calls[1].file, segments |-> <<>>, duration |-> 0,
                   error |-> message]>>
    /\ completionOrder' = Append(completionOrder, 0)
    /\ Catch(message, "single", disk)
    /\ UNCHANGED <<chunkMinutes, created, fileDuration, fileSize, audioDuration,
                   chunkDurationSeconds, needsChunking, chunkFiles, chunks, startTime,
                   chunkIndex>>
    /\ UNCHANGED notPipeline

Next ==
    \/ \E cm \in ChunkMinutesInputs : StartTranscribe(cm)
    \/ FfmpegWritesAudio
    \/ \E duration \in Durations, size \in FileSizes : ExtractAudioEnd(duration, size)
    \/ \E message \in ErrorMessages : ExtractAudioError(message)
    \/ ProbeEnd
    \/ \E message \in ErrorMessages : ProbeError(message)
    \/ SplitProbeEnd
    \/ \E message \in ErrorMessages : SplitProbeError(message)
    \/ FfmpegWritesChunk
    \/ SplitChunkEnd
    \/ \E message \in ErrorMessages : SplitChunkError(message)
    \/ \E i \in DOMAIN calls : ChunkTranscribed(i)
    \/ \E i \in DOMAIN calls, message \in ErrorMessages : ChunkFailed(i, message)
    \/ \E segments \in BackendResults(0, audioDuration) : SingleTranscribed(segments)
    \/ \E message \in ErrorMessages : SingleFailed(message)

Spec == Init /\ [][Next]_vars


(***************************************************************************)
(* mergeChunkSegments on its own: the arguments are drawn around the seam  *)
(* at chunkStartTime, the call is one step.                                *)
(***************************************************************************)
MergeChunkStarts == {0, 210, 240}
MergeOverlaps == {0, CHUNK_OVERLAP_SECONDS}

MergeTimes(chunkStart) ==
    {t \in {chunkStart - 2, chunkStart - 1, chunkStart + 1, chunkStart + 2} : t >= 0}

MergeSegments(chunkStart) ==
    {[start |-> p[1], end |-> p[2], text |-> "alpha", speaker |-> "A"] :
        p \in {q \in MergeTimes(chunkStart) \X MergeTimes(chunkStart) : q[1] < q[2]}}

MergeLists(chunkStart) ==
    UNION {[1..n -> MergeSegments(chunkStart)] : n \in 0..MaxMergeLen}

InitMerge ==
    /\ OldFilesIdle
    /\ SplitIdle
    /\ ParallelIdle
    /\ UploadIdle
    /\ RateLimitIdle
    /\ CleanupIdle
    /\ PipelineIdle
    /\ LoopIdle
    /\ NormalizeIdle
    /\ TwoRunsIdle
    /\ mpc = "idle"
    /\ mChunkStart \in MergeChunkStarts
    /\ mOverlap \in MergeOverlaps
    /\ mExisting \in MergeLists(mChunkStart)
    /\ mNew \in MergeLists(mChunkStart)
    /\ mResult = <<>>

MergeCall ==
    /\ mpc = "idle"
    /\ mpc' = "returned"
    /\ mResult' = mergeChunkSegments(mExisting, mNew, mChunkStart, mOverlap)
    /\ UNCHANGED <<mExisting, mNew, mChunkStart, mOverlap>>
    /\ UNCHANGED notMerge

NextMerge == MergeCall

SpecMerge == InitMerge /\ [][NextMerge]_vars

(***************************************************************************)
(* Properties.                                                             *)
(***************************************************************************)
ChunkFilesCreated == {p \in created : p[1] = "chunk"}
CallStatuses == {calls[i].status : i \in DOMAIN calls}

\* The probe has answered and the chunking decision was taken.
Decided ==
    \/ pc \in {"splitProbe", "splitting", "dispatching", "single", "done"}
    \/ pc = "failed" /\ failedAt \in {"splitting", "dispatching", "single"}

\* splitAudioIntoChunks has returned its list.
SplitReturned == needsChunking /\ calls # <<>>

\* C1: when a chunk's transcription fails in a chunked run, then once the error
\* response is sent no file the run created is on disk any more: neither the
\* extracted audio nor any chunk file, also those whose call had succeeded.
C1_ChunkFailureRemovesAllFiles ==
    (pc = "failed" /\ failedAt = "dispatching") =>
        /\ Len(responses) = 1
        /\ created \cap disk = {}

\* C1's case: a run of several chunks failed after one of its calls had succeeded.
C1_Witness ==
    /\ pc = "failed"
    /\ failedAt = "dispatching"
    /\ Len(chunkFiles) >= 2
    /\ "ok" \in CallStatuses
    /\ AudioPath \in created

\* C2: from whichever stage the run fails, no file the run created up to that
\* point is left on disk (the audio file and every chunk file written).
C2_FailureRemovesAllFiles ==
    pc = "failed" => created \cap disk = {}

\* The fold of mergeChunkSegments over the first k chunks, in chunk order.
RECURSIVE C3_MergedUpTo(_)
C3_MergedUpTo(k) ==
    IF k = 0 THEN <<>>
    ELSE mergeChunkSegments(C3_MergedUpTo(k - 1),
                            AdjustSegments(calls[k].segments, chunks[k].startTime),
                            chunks[k].startTime, CHUNK_OVERLAP_SECONDS)

\* C3: whatever the order in which the chunk calls complete, the merged segment
\* list of the response is the one obtained by merging the chunks' results in
\* ascending chunk index, and the transcript is its normalization.
C3_MergeInChunkOrder ==
    (pc = "done" /\ needsChunking) =>
        /\ responses[1].raw.segments = C3_MergedUpTo(Len(chunks))
        /\ responses[1].transcript =
               processTranscription(C3_MergedUpTo(Len(chunks)), DefaultUnknownLabels)

\* C3's case: a run whose last chunk's call completed first, with results to merge.
C3_Witness ==
    /\ pc = "done"
    /\ needsChunking
    /\ Len(chunks) >= 3
    /\ completionOrder[1] = Len(chunks) - 1
    /\ \A i \in DOMAIN calls : calls[i].segments # <<>>
    /\ Len(responses[1].raw.segments) >= 2

\* C4: no response is sent (and so no chunk file is deleted) while a dispatched
\* chunk call is still in flight.
C4_NoResponseWhileCallsInFlight ==
    responses # <<>> => "inflight" \notin CallStatuses

\* The call that failed first.
C5_FirstFailed ==
    LET k == CHOOSE k \in DOMAIN completionOrder :
                 /\ calls[completionOrder[k] + 1].status = "failed"
                 /\ \A j \in 1..(k - 1) : calls[completionOrder[j] + 1].status # "failed"
    IN  completionOrder[k] + 1

\* C5: a run answers at most once, and exactly once when it has ended; a success
\* response is sent only when every call succeeded; once a call has failed the one
\* response is the error of the first failure and carries no transcript.
C5_AllOrNothing ==
    /\ Len(responses) <= 1
    /\ pc \in {"done", "failed"} <=> Len(responses) = 1
    /\ \A n \in DOMAIN responses :
           responses[n].status = 200 => (calls # <<>> /\ CallStatuses = {"ok"})
    /\ "failed" \in CallStatuses =>
           /\ Len(responses) = 1
           /\ responses[1] = [status |-> 500,
                              error |-> ErrorMessage(calls[C5_FirstFailed].error)]

\* C5's case: two chunk calls failed with different errors, the second after the
\* response.
C5_Witness ==
    /\ Len(responses) = 1
    /\ \E i, j \in DOMAIN calls :
           /\ calls[i].status = "failed"
           /\ calls[j].status = "failed"
           /\ ErrorMessage(calls[i].error) # ErrorMessage(calls[j].error)
    /\ "ok" \in CallStatuses

\* C6: for a duration above the chunk size the returned chunks cover the whole
\* source: the first starts at 0 and the last ends at the duration.
C6_ChunksCoverSource ==
    (SplitReturned /\ fileDuration > chunkDurationSeconds) =>
        /\ chunks[1].startTime = 0
        /\ chunks[Len(chunks)].endTime = fileDuration

\* C7: every chunk the splitter cuts ends at min(start + chunk size, duration),
\* and each next chunk starts one overlap before the end of the previous one.
C7_ConsecutiveChunksOverlap ==
    \A i \in DOMAIN chunks :
        ~chunks[i].isOriginal =>
            /\ chunks[i].endTime =
                   Min(chunks[i].startTime + chunkDurationSeconds, fileDuration)
            /\ i < Len(chunks) =>
                   chunks[i + 1].startTime = chunks[i].endTime - CHUNK_OVERLAP_SECONDS

\* C7's case: the splitter returned three chunks or more.
C7_Witness ==
    /\ SplitReturned
    /\ fileDuration > chunkDurationSeconds
    /\ Len(chunks) >= 3

\* C8: for a duration of at most the chunk size the splitter returns the source
\* itself as the one chunk, from 0 to the duration, and writes no sub-clip.
C8_ShortAudioIsOriginal ==
    (SplitReturned /\ fileDuration <= chunkDurationSeconds) =>
        /\ chunks = <<[path |-> AudioPath, startTime |-> 0, endTime |-> fileDuration,
                       isOriginal |-> TRUE]>>
        /\ ChunkFilesCreated = {}
        /\ chunkFiles = <<>>

\* C8's case: the splitter returned for a source exactly as long as the chunk size.
C8_Witness ==
    /\ SplitReturned
    /\ fileDuration = chunkDurationSeconds

\* C9: the run is chunked if and only if the duration is above 1200 s, or the size
\* above 24 MB, or the duration above 1.5 times the chunk size, which is
\* min(chunkMinutes * 60, 900) with chunkMinutes 4 when absent.
C9_ChunkingDecision ==
    Decided =>
        LET minutes == IF chunkMinutes = 0 THEN 4 ELSE chunkMinutes
            chunkSeconds == IF minutes * 60 < 900 THEN minutes * 60 ELSE 900
        IN  /\ chunkDurationSeconds = chunkSeconds
            /\ needsChunking <=> \/ audioDuration > 1200
                                 \/ fileSize > 24 * 1024 * 1024
                                 \/ 2 * audioDuration > 3 * chunkSeconds

\* C9's case: a duration of exactly 1.5 times the chunk size, within the hard
\* limits, was decided not to be chunked.
C9_Witness ==
    /\ Decided
    /\ 2 * audioDuration = 3 * chunkDurationSeconds
    /\ audioDuration <= 1200
    /\ fileSize <= 24 * 1024 * 1024
    /\ ~needsChunking

\* The two sides of the contract, segment by segment.
RECURSIVE C10_KeptExisting(_, _)
C10_KeptExisting(segs, chunkStart) ==
    IF segs = <<>> THEN <<>>
    ELSE (IF Head(segs).end <= chunkStart + 1 THEN <<Head(segs)>> ELSE <<>>)
         \o C10_KeptExisting(Tail(segs), chunkStart)

RECURSIVE C10_KeptNew(_, _)
C10_KeptNew(segs, chunkStart) ==
    IF segs = <<>> THEN <<>>
    ELSE (IF Head(segs).start >= chunkStart - 1 THEN <<Head(segs)>> ELSE <<>>)
         \o C10_KeptNew(Tail(segs), chunkStart)

\* C10: mergeChunkSegments returns newSegments itself when the accumulated list
\* is empty; otherwise the accumulated segments ending at most one second after
\* chunkStartTime, in order, followed by the new segments starting at most one
\* second before it, in order, each unaltered.
C10_MergeContract ==
    mpc = "returned" =>
        IF mExisting = <<>>
        THEN mResult = mNew
        ELSE mResult = C10_KeptExisting(mExisting, mChunkStart)
                       \o C10_KeptNew(mNew, mChunkStart)

\* C10's case: a merge that kept an accumulated segment ending exactly one second
\* after the seam and a new one starting exactly one second before it, and dropped
\* one of each list.
C10_Witness ==
    /\ mpc = "returned"
    /\ \E i \in DOMAIN mExisting : mExisting[i].end = mChunkStart + 1
    /\ \E i \in DOMAIN mExisting : mExisting[i].end > mChunkStart + 1
    /\ \E i \in DOMAIN mNew : mNew[i].start = mChunkStart - 1
    /\ \E i \in DOMAIN mNew : mNew[i].start < mChunkStart - 1
    /\ Len(mResult) = 2


\* The seam scenario: the segment spanning 239-241 s, and how often a list holds it.
C11_SeamSegment == [start |-> 239, end |-> 241, text |-> "alpha", speaker |-> "A"]
C11_Count(segs) == Cardinality({i \in DOMAIN segs : segs[i] = C11_SeamSegment})
C11_SeamCase ==
    /\ mpc = "returned"
    /\ mChunkStart = 240
    /\ C11_Count(mExisting) >= 1
    /\ C11_Count(mNew) >= 1

\* C11 as stated: with chunkStartTime = 240, when the accumulated list and the new
\* chunk both hold a segment spanning 239-241 s, the merge drops it on both sides.
C11_SeamSegmentDropped ==
    C11_SeamCase => C11_Count(mResult) = 0

\* C11 as amended: in that scenario the merge keeps the segment on both sides
\* (its end 241 is not above 240 + 1, its start 239 not below 240 - 1), so the
\* result holds it once for every time either list held it.
C11_SeamSegmentKept ==
    C11_SeamCase => C11_Count(mResult) = C11_Count(mExisting) + C11_Count(mNew)

\* C11's case: the scenario itself, each list holding just that segment.
C11_Witness ==
    /\ C11_SeamCase
    /\ mExisting = <<C11_SeamSegment>>
    /\ mNew = <<C11_SeamSegment>>
    /\ mResult = <<C11_SeamSegment, C11_SeamSegment>>


(***************************************************************************)
(* splitAudioIntoChunks as a function of the duration: the list the loop   *)
(* returns when every ffmpeg run succeeds.                                 *)
(***************************************************************************)
RECURSIVE SplitLoop(_, _, _, _)
SplitLoop(duration, chunkSeconds, start, acc) ==
    LET endTime == ChunkEndTime(start, chunkSeconds, duration)
        pushed == Append(acc, [path |-> ChunkPath(Len(acc)), startTime |-> start,
                               endTime |-> endTime, isOriginal |-> FALSE])
        next == NextStartTime(endTime, CHUNK_OVERLAP_SECONDS)
    IN  IF RemainderIsShort(duration, next, CHUNK_OVERLAP_SECONDS) \/ ~(next < duration)
        THEN pushed
        ELSE SplitLoop(duration, chunkSeconds, next, pushed)

splitAudioIntoChunks(duration, chunkSeconds) ==
    IF IsShortAudio(duration, chunkSeconds)
    THEN <<OriginalChunk(duration)>>
    ELSE SplitLoop(duration, chunkSeconds, 0, <<>>)

(***************************************************************************)
(* The merge loop on its own (lines 213-229): the chunks of a source, one  *)
(* backend result per chunk, merged in one step.  The results' segments    *)
(* are in ascending start order; their boundaries are the file's ends and  *)
(* the last second the merge tolerates past the seam, where a segment may  *)
(* also be a single instant.                                               *)
(***************************************************************************)
\* Segments in one backend response of a stand-alone merge loop.
MaxLoopSegs == 2

\* <<duration, chunkDurationSeconds>> of the sources merged.
LoopSources == {<<361, 240>>, <<660, 240>>}

LoopSegments(i, len) ==
    LET seam == len - CHUNK_OVERLAP_SECONDS + 1
    IN  {[start |-> p[1], end |-> p[2], text |-> Word(i), speaker |-> "A"] :
            p \in {<<0, seam>>, <<0, len>>, <<seam, seam>>, <<seam, len>>}}

LoopResults(i, len) ==
    {segs \in UNION {[1..n -> LoopSegments(i, len)] : n \in 0..MaxLoopSegs} :
        \A k \in 1..(Len(segs) - 1) : segs[k].start <= segs[k + 1].start}

\* The per-chunk results a chunk list may get.
LoopResultLists(cs) ==
    {rs \in [DOMAIN cs -> UNION {LoopResults(i - 1, cs[i].endTime - cs[i].startTime) :
                                    i \in DOMAIN cs}] :
        \A i \in DOMAIN cs : rs[i] \in LoopResults(i - 1, cs[i].endTime - cs[i].startTime)}

InitLoop ==
    /\ OldFilesIdle
    /\ SplitIdle
    /\ ParallelIdle
    /\ UploadIdle
    /\ RateLimitIdle
    /\ CleanupIdle
    /\ PipelineIdle
    /\ MergeIdle
    /\ NormalizeIdle
    /\ TwoRunsIdle
    /\ lpc = "idle"
    /\ lChunks \in {splitAudioIntoChunks(src[1], src[2]) : src \in LoopSources}
    /\ lResults \in LoopResultLists(lChunks)
    /\ lOut = <<>>

MergeLoopCall ==
    /\ lpc = "idle"
    /\ lpc' = "returned"
    /\ lOut' = MergeLoop(SortByIndex(PromiseAllValues(lChunks,
                   [i \in DOMAIN lChunks |->
                       [segments |-> lResults[i],
                        duration |-> lChunks[i].endTime - lChunks[i].startTime]])),
                   1, <<>>, 0).segments
    /\ UNCHANGED <<lChunks, lResults>>
    /\ UNCHANGED notLoop

NextLoop == MergeLoopCall

SpecLoop == InitLoop /\ [][NextLoop]_vars

\* The splitter's steps and its function agree.
SplitStepsAgree ==
    SplitReturned => chunks = splitAudioIntoChunks(fileDuration, chunkDurationSeconds)


(***************************************************************************)
(* The merged transcript of a chunked run.                                 *)
(***************************************************************************)
\* The chunk a segment of the merged transcript came from (its text names it).
SourceChunk(seg) == CHOOSE i \in 0..MaxChunks : Word(i) = seg.text

\* C12: when every chunk's result lists its segments in ascending start
\* order, the merged transcript of the run is in ascending start order.
C12_MergedSortedByStart ==
    lpc = "returned" =>
        \A k \in 1..(Len(lOut) - 1) : lOut[k].start <= lOut[k + 1].start

\* C13 as stated: no instant lies inside two segments of the merged
\* transcript that came from different chunks.
C13_NoSharedInstant ==
    lpc = "returned" =>
        \A j, k \in DOMAIN lOut :
            SourceChunk(lOut[j]) # SourceChunk(lOut[k]) =>
                ~(Max(lOut[j].start, lOut[k].start) < Min(lOut[j].end, lOut[k].end))

\* The time two segments both cover (none when not positive).
Shared(a, b) == Min(a.end, b.end) - Max(a.start, b.start)

\* C13 as amended: two segments of the merged transcript that came from
\* different chunks share at most the one second past the later chunk's
\* start that the merge tolerates on the accumulated side.
C13_SharedAtMostTolerance ==
    lpc = "returned" =>
        \A j, k \in DOMAIN lOut :
            SourceChunk(lOut[j]) # SourceChunk(lOut[k]) => Shared(lOut[j], lOut[k]) <= 1

C13_Witness ==
    /\ lpc = "returned"
    /\ \E j, k \in DOMAIN lOut :
        /\ SourceChunk(lOut[j]) # SourceChunk(lOut[k])
        /\ Shared(lOut[j], lOut[k]) = 1


(***************************************************************************)
(* processTranscription on its own (lines 348-378): the segments of a      *)
(* transcription and the configured unknown_speaker_labels, normalised in  *)
(* one step.  A segment without a speaker carries "".                      *)
(***************************************************************************)
\* Segments in one processTranscription input.
MaxNormSegs == 3

\* The id the backend gave every input segment.
BackendId == 7

NormSpeakers == {"", "A", "B", "AB", "Dana"}

NormSegments ==
    {[id |-> BackendId, start |-> p[1], end |-> p[2], text |-> p[3], speaker |-> sp] :
        p \in {<<0, 5, "alpha">>, <<5, 9, "beta">>}, sp \in NormSpeakers}

\* config.unknown_speaker_labels || [...]: the default, and arrays an
\* operator may have saved.
NormLabelLists ==
    {DefaultUnknownLabels, <<"Host">>, <<"Host", "Host">>, <<"", "Guest">>, <<>>}

InitNormalize ==
    /\ OldFilesIdle
    /\ SplitIdle
    /\ ParallelIdle
    /\ UploadIdle
    /\ RateLimitIdle
    /\ CleanupIdle
    /\ PipelineIdle
    /\ MergeIdle
    /\ LoopIdle
    /\ TwoRunsIdle
    /\ npc = "idle"
    /\ nSegments \in UNION {[1..n -> NormSegments] : n \in 0..MaxNormSegs}
    /\ nLabels \in NormLabelLists
    /\ nOut = <<>>

NormalizeCall ==
    /\ npc = "idle"
    /\ npc' = "returned"
    /\ nOut' = processTranscription(nSegments, nLabels)
    /\ UNCHANGED <<nSegments, nLabels>>
    /\ UNCHANGED notNormalize

NextNormalize == NormalizeCall

SpecNormalize == InitNormalize /\ [][NextNormalize]_vars


\* Position of the first input segment carrying a speaker code.
FirstAppearance(code) == CHOOSE i \in DOMAIN nSegments :
    /\ nSegments[i].speaker = code
    /\ \A j \in 1..(i - 1) : nSegments[j].speaker # code

\* k such that the code is the k-th distinct single-letter code of the input.
CodeRank(code) ==
    Cardinality({FirstAppearance(nSegments[j].speaker) : j \in
        {j \in DOMAIN nSegments : /\ IsGenericLabel(nSegments[j].speaker)
                                  /\ FirstAppearance(nSegments[j].speaker)
                                        <= FirstAppearance(code)}})

CodedPositions == {i \in DOMAIN nSegments : IsGenericLabel(nSegments[i].speaker)}

LabelsRemainFor(i) == CodeRank(nSegments[i].speaker) <= Len(nLabels)

C14_Assignment ==
    /\ \A i \in CodedPositions :
        LabelsRemainFor(i) => nOut[i].speaker = nLabels[CodeRank(nSegments[i].speaker)]
    /\ \A i, j \in CodedPositions :
        nSegments[i].speaker = nSegments[j].speaker => nOut[i].speaker = nOut[j].speaker
    /\ \A i, j \in CodedPositions :
        /\ nSegments[i].speaker # nSegments[j].speaker
        /\ LabelsRemainFor(i)
        /\ LabelsRemainFor(j)
        => nOut[i].speaker # nOut[j].speaker

\* C14 as stated: the k-th distinct single-letter code gets the k-th
\* configured label while labels remain, a code keeps its label, and two
\* codes never share a label while labels remain, for every configured list.
C14_KthCodeKthLabel == npc = "returned" => C14_Assignment

\* The configured labels are non-empty strings, no two of them equal.
C14_LabelsUsable ==
    /\ \A k \in DOMAIN nLabels : nLabels[k] # ""
    /\ \A j, k \in DOMAIN nLabels : j # k => nLabels[j] # nLabels[k]

\* C14 as amended: the same, when the configured labels are non-empty and
\* pairwise different.
C14_KthCodeKthUsableLabel == (npc = "returned" /\ C14_LabelsUsable) => C14_Assignment

C14_Witness ==
    /\ npc = "returned"
    /\ nLabels = DefaultUnknownLabels
    /\ Len(nSegments) = 3
    /\ nSegments[1].speaker = "B"
    /\ nSegments[2].speaker = "A"
    /\ nSegments[3].speaker = "B"
    /\ nOut[1].speaker = "Interviewer"
    /\ nOut[2].speaker = "Speaker A"
    /\ nOut[3].speaker = "Interviewer"


\* C15 as stated: a speaker string that is not a single uppercase letter,
\* the empty string included, is output unchanged.
C15_OtherSpeakersUnchanged ==
    npc = "returned" =>
        \A i \in DOMAIN nSegments :
            ~IsGenericLabel(nSegments[i].speaker) => nOut[i].speaker = nSegments[i].speaker

\* C15 as amended: a non-empty speaker string that is not a single
\* uppercase letter is output unchanged; an empty (or missing) speaker is
\* output as "Unknown".
C15_NamedSpeakersUnchanged ==
    npc = "returned" =>
        \A i \in DOMAIN nSegments :
            /\ (nSegments[i].speaker \notin UpperLetters \cup {""})
                    => nOut[i].speaker = nSegments[i].speaker
            /\ nSegments[i].speaker = "" => nOut[i].speaker = "Unknown"

C15_Witness ==
    /\ npc = "returned"
    /\ Len(nSegments) = 3
    /\ nSegments[1].speaker = "Dana"
    /\ nSegments[2].speaker = ""
    /\ nSegments[3].speaker = "AB"
    /\ nOut[1].speaker = "Dana"
    /\ nOut[2].speaker = "Unknown"
    /\ nOut[3].speaker = "AB"

\* C16: one output segment per input segment, in the same order, with ids
\* 0, 1, 2, ... by position whatever id the input carried, and with start,
\* end and text copied unchanged.
C16_OneOutputPerInput ==
    npc = "returned" =>
        /\ Len(nOut) = Len(nSegments)
        /\ \A i \in DOMAIN nSegments :
            /\ nOut[i].id = i - 1
            /\ nOut[i].start = nSegments[i].start
            /\ nOut[i].end = nSegments[i].end
            /\ nOut[i].text = nSegments[i].text

C16_Witness ==
    /\ npc = "returned"
    /\ Len(nOut) = 3
    /\ \A i \in 1..3 : nSegments[i].id = BackendId /\ nOut[i].id = i - 1
    /\ nSegments[1].text = "beta"
    /\ nSegments[2].text = "alpha"
    /\ nOut[1].text = "beta"
    /\ nOut[2].text = "alpha"


(***************************************************************************)
(* The answer of a successful run.                                         *)
(***************************************************************************)
Succeeded == pc = "done" /\ Len(responses) = 1 /\ responses[1].status = 200

\* C17: chunksUsed in a successful response is the number of chunks the
\* splitter produced and the run transcribed, and 1 when no chunking occurred.
C17_ChunksUsedIsChunkCount ==
    Succeeded =>
        responses[1].chunksUsed = (IF needsChunking THEN Len(chunks) ELSE 1)


\* What a run that decided against chunking has done.
C18_SingleCallState ==
    (Decided /\ ~needsChunking) =>
        /\ Len(calls) <= 1
        /\ \A i \in DOMAIN calls : calls[i].file = AudioPath
        /\ pc \in {"single", "done", "failed"}
        /\ pc = "done" => Len(calls) = 1
        /\ chunks = <<>>
        /\ ChunkFilesCreated = {}
        /\ Succeeded => (responses[1].chunked = FALSE /\ responses[1].chunksUsed = 1)

\* The once: a decision taken is never taken again within the run.
C18_DecidedOnce == Decided => (Decided' /\ needsChunking' = needsChunking)

\* C18: the chunking decision is taken once per run; when it is false the
\* run makes exactly one transcription call, on the whole extracted audio
\* file, writes no chunk file, and on success answers chunked = false and
\* chunksUsed = 1.
C18_NoChunkingSingleCall == []C18_SingleCallState /\ [][C18_DecidedOnce]_vars

C18_Witness ==
    /\ Succeeded
    /\ ~needsChunking
    /\ Len(calls) = 1
    /\ calls[1].status = "ok"
    /\ responses[1].chunked = FALSE
    /\ responses[1].chunksUsed = 1


(***************************************************************************)
(* The files handed to transcribeAudioFile.                                *)
(***************************************************************************)
\* Bytes ffmpeg writes per second of a sub-clip: audioBitrate('128k').
AUDIO_BYTES_PER_SECOND == 16000

\* Duration and size of the file the i-th call was given: the extracted
\* audio as extractAudio left it, or the sub-clip ffmpeg cut for the chunk.
SentDuration(i) ==
    IF calls[i].file = AudioPath THEN fileDuration ELSE ChunkLength(i)
SentSize(i) ==
    IF calls[i].file = AudioPath THEN fileSize ELSE ChunkLength(i) * AUDIO_BYTES_PER_SECOND

\* C19: no file passed to transcribeAudioFile is longer than
\* MAX_DURATION_SECONDS or larger than MAX_FILE_SIZE_MB; an extracted audio
\* over a limit is never sent whole.
C19_NoFileOverHardLimits ==
    \A i \in DOMAIN calls : ~ExceedsHardLimits(SentDuration(i), SentSize(i))


(***************************************************************************)
(* Two POST /transcribe requests served at once by the one process.  Each  *)
(* request names its sessionId; the working files are                      *)
(* UPLOADS_DIR/<sessionId>.mp3 and UPLOADS_DIR/<sessionId>_chunk_<k>.mp3.  *)
(* A step is what a request does between two awaits, with the probes       *)
(* folded into the step before them; the backend's answers are left out.   *)
(***************************************************************************)
SessionIds == {"s1", "s2"}
RunDurations == {100, 361}

\* safeUploadPath(`${sessionId}.mp3`)
SessionAudioPath(sessionId) == <<"audio", sessionId>>
\* path.join(outputDir, `${baseName}_chunk_${chunkIndex}.mp3`)
SessionChunkPath(sessionId, k) == <<"chunk", sessionId, k>>

InProgress(r) == rpc[r] \in {"extracting", "splitting", "transcribing"}

\* The chunk list splitAudioIntoChunks builds for a request, with its paths.
RunTargetChunks(r) ==
    LET cs == splitAudioIntoChunks(rDuration[r], ChunkDurationSeconds(0))
    IN  [i \in DOMAIN cs |->
            [cs[i] EXCEPT !.path = IF cs[i].isOriginal
                                   THEN SessionAudioPath(rSession[r])
                                   ELSE SessionChunkPath(rSession[r], i - 1)]]

\* The working files an in-progress request has written and still relies on.
Using(r) ==
    IF InProgress(r)
    THEN {SessionAudioPath(rSession[r])} \cup {rChunks[r][i].path : i \in DOMAIN rChunks[r]}
    ELSE {}

\* The file operations of a step of request r that hit a file in use by
\* the other request.
Touch(r, ops) ==
    rCollisions' = rCollisions \cup
        {op \in ops : \E o \in Runs \ {r} : op[2] \in Using(o)}

InitTwoRuns ==
    /\ OldFilesIdle
    /\ SplitIdle
    /\ ParallelIdle
    /\ UploadIdle
    /\ RateLimitIdle
    /\ CleanupIdle
    /\ PipelineIdle
    /\ MergeIdle
    /\ LoopIdle
    /\ NormalizeIdle
    /\ rpc = [r \in Runs |-> "idle"]
    /\ rSession \in [Runs -> SessionIds]
    /\ rDuration \in [Runs -> RunDurations]
    /\ rChunks = [r \in Runs |-> <<>>]
    /\ rChunkFiles = [r \in Runs |-> <<>>]
    /\ rDisk = {}
    /\ rCollisions = {}

\* Lines 93-121: the request is accepted, ffmpeg starts writing the audio.
RunStart(r) ==
    /\ rpc[r] = "idle"
    /\ rpc' = [rpc EXCEPT ![r] = "extracting"]
    /\ rDisk' = rDisk \cup {SessionAudioPath(rSession[r])}
    /\ Touch(r, {<<"write", SessionAudioPath(rSession[r])>>})
    /\ UNCHANGED <<rSession, rDuration, rChunks, rChunkFiles>>
    /\ UNCHANGED notTwoRuns


\* Lines 122-144: extractAudio resolved; ffprobe and statSync read the
\* audio, the decision is taken, and without chunking transcribeAudioFile
\* opens the audio (line 296).
RunExtractEnd(r) ==
    /\ rpc[r] = "extracting"
    /\ rpc' = [rpc EXCEPT ![r] =
                 IF NeedsChunking(rDuration[r], 1000000, ChunkDurationSeconds(0))
                 THEN "splitting" ELSE "transcribing"]
    /\ Touch(r, {<<"read", SessionAudioPath(rSession[r])>>})
    /\ UNCHANGED <<rSession, rDuration, rChunks, rChunkFiles, rDisk>>
    /\ UNCHANGED notTwoRuns

\* One ffmpeg run of splitAudioIntoChunks has written its sub-clip; after
\* the last one the handler tracks the chunk files and transcribeAudioFile
\* opens each of them (lines 179-207, 296).
RunSplitChunk(r) ==
    /\ rpc[r] = "splitting"
    /\ LET target == RunTargetChunks(r)
           k == Len(rChunks[r]) + 1
           last == k = Len(target)
       IN  /\ k <= Len(target)
           /\ rChunks' = [rChunks EXCEPT ![r] = Append(@, target[k])]
           /\ rDisk' = rDisk \cup {target[k].path}
           /\ rChunkFiles' = [rChunkFiles EXCEPT ![r] =
                                IF last THEN TrackChunkFiles(target) ELSE @]
           /\ rpc' = [rpc EXCEPT ![r] = IF last THEN "transcribing" ELSE @]
           /\ Touch(r, {<<"read", SessionAudioPath(rSession[r])>>,
                        <<"write", target[k].path>>}
                       \cup (IF last
                             THEN {<<"read", target[i].path>> : i \in DOMAIN target}
                             ELSE {}))
    /\ UNCHANGED <<rSession, rDuration>>
    /\ UNCHANGED notTwoRuns

\* cleanupFiles([audioPath, ...chunkFiles]): the unlinks it performs.
CleanupOps(r) ==
    LET filePaths == <<SessionAudioPath(rSession[r])>> \o rChunkFiles[r]
    IN  {<<"delete", filePaths[i]>> : i \in {i \in DOMAIN filePaths : filePaths[i] \in rDisk}}

RunCleanup(r) ==
    /\ rDisk' = cleanupFiles(<<SessionAudioPath(rSession[r])>> \o rChunkFiles[r], rDisk)
    /\ Touch(r, CleanupOps(r))

\* Lines 259-271: every call has answered; clean up and respond.
RunSucceed(r) ==
    /\ rpc[r] = "transcribing"
    /\ rpc' = [rpc EXCEPT ![r] = "done"]
    /\ RunCleanup(r)
    /\ UNCHANGED <<rSession, rDuration, rChunks, rChunkFiles>>
    /\ UNCHANGED notTwoRuns

\* Lines 272-291: an await rejected; clean up and answer 500.
RunFail(r) ==
    /\ InProgress(r)
    /\ rpc' = [rpc EXCEPT ![r] = "failed"]
    /\ RunCleanup(r)
    /\ UNCHANGED <<rSession, rDuration, rChunks, rChunkFiles>>
    /\ UNCHANGED notTwoRuns

NextTwoRuns ==
    \E r \in Runs :
        \/ RunStart(r)
        \/ RunExtractEnd(r)
        \/ RunSplitChunk(r)
        \/ RunSucceed(r)
        \/ RunFail(r)

SpecTwoRuns == InitTwoRuns /\ [][NextTwoRuns]_vars

\* C20: two requests served at once never collide on working files: no
\* request writes, reads or deletes an extracted-audio or chunk file that
\* the other in-progress request is using, the same sessionId included.
C20_NoCollision == rCollisions = {}

\* Requests with different sessionIds do not collide.
DifferentSessionsApart == rSession[1] # rSession[2] => rCollisions = {}


(***************************************************************************)
(* A sub-clip that fails.                                                  *)
(***************************************************************************)
\* C22: when ffmpeg fails on a sub-clip, that chunk's output file is
\* deleted before the error reaches the handler: once the split has
\* rejected, the failing chunk's file is not on disk.
C22_FailedChunkLeavesNoFile ==
    (pc = "failed" /\ failedAt = "splitting") => ChunkPath(chunkIndex) \notin disk

C22_Witness ==
    /\ pc = "failed"
    /\ failedAt = "splitting"
    /\ chunkIndex = 1
    /\ ChunkPath(1) \in created
    /\ ChunkPath(1) \notin disk
    /\ ChunkPath(0) \in disk


(***************************************************************************)
(* The end of a run when unlinkSync may throw (lines 259-291, 335-345):    *)
(* the pipeline has succeeded or an await has rejected, cleanupFiles runs  *)
(* over the run's files, some of which cannot be deleted, and the handler  *)
(* answers.                                                                *)
(***************************************************************************)
\* cleanupFiles that leaves its loop at the first unlink that throws.
RECURSIVE cleanupFilesStopAtFailure(_, _, _, _)
cleanupFilesStopAtFailure(filePaths, i, locked, acc) ==
    IF i > Len(filePaths) THEN acc
    ELSE LET filePath == filePaths[i]
         IN  IF filePath \notin acc.disk
             THEN cleanupFilesStopAtFailure(filePaths, i + 1, locked, acc)
             ELSE IF filePath \in locked
                  THEN [acc EXCEPT !.attempted = Append(@, filePath),
                                   !.logged = Append(@, filePath)]
                  ELSE cleanupFilesStopAtFailure(filePaths, i + 1, locked,
                           [acc EXCEPT !.attempted = Append(@, filePath),
                                       !.disk = @ \ {filePath}])

\* cleanupFiles, path by path: existsSync, unlinkSync, and the catch that
\* logs a failed unlink and goes on.
RECURSIVE cleanupFilesUnlink(_, _, _, _)
cleanupFilesUnlink(filePaths, i, locked, acc) ==
    IF i > Len(filePaths) THEN acc
    ELSE LET filePath == filePaths[i]
         IN  IF filePath \notin acc.disk
             THEN cleanupFilesUnlink(filePaths, i + 1, locked, acc)
             ELSE IF filePath \in locked
                  THEN cleanupFilesUnlink(filePaths, i + 1, locked,
                           [acc EXCEPT !.attempted = Append(@, filePath),
                                       !.logged = Append(@, filePath)])
                  ELSE cleanupFilesUnlink(filePaths, i + 1, locked,
                           [acc EXCEPT !.attempted = Append(@, filePath),
                                       !.disk = @ \ {filePath}])

CleanupFileLists == {<<AudioPath>>, <<AudioPath, ChunkPath(0), ChunkPath(1)>>}

InitCleanup ==
    /\ OldFilesIdle
    /\ SplitIdle
    /\ ParallelIdle
    /\ UploadIdle
    /\ RateLimitIdle
    /\ PipelineIdle
    /\ MergeIdle
    /\ LoopIdle
    /\ NormalizeIdle
    /\ TwoRunsIdle
    /\ cpc = "idle"
    /\ cOutcome \in {"success"} \cup ErrorMessages
    /\ cFiles \in CleanupFileLists
    /\ cDisk \in SUBSET {cFiles[i] : i \in DOMAIN cFiles}
    /\ cLocked \in SUBSET {cFiles[i] : i \in DOMAIN cFiles}
    /\ cAttempted = <<>>
    /\ cLogged = <<>>
    /\ cResponse = <<>>

\* Lines 262-271 or 279-291: cleanupFiles, then the answer.
CleanupAndRespond ==
    /\ cpc = "idle"
    /\ cpc' = "responded"
    /\ LET after == cleanupFilesUnlink(cFiles, 1, cLocked,
                        [disk |-> cDisk, attempted |-> <<>>, logged |-> <<>>])
       IN  /\ cDisk' = after.disk
           /\ cAttempted' = after.attempted
           /\ cLogged' = after.logged
    /\ cResponse' = IF cOutcome = "success"
                    THEN <<[status |-> 200, success |-> TRUE]>>
                    ELSE <<[status |-> 500, error |-> ErrorMessage(cOutcome)]>>
    /\ UNCHANGED <<cOutcome, cFiles, cLocked>>
    /\ UNCHANGED notCleanup

NextCleanup == CleanupAndRespond

SpecCleanup == InitCleanup /\ [][NextCleanup]_vars

\* cleanupFiles with no unlink failing is the deletion of the listed paths.
CleanupAgrees ==
    (cpc = "idle" /\ cLocked = {}) =>
        cleanupFilesUnlink(cFiles, 1, {}, [disk |-> cDisk, attempted |-> <<>>,
                                           logged |-> <<>>]).disk
            = cleanupFiles(cFiles, cDisk)

\* C21: cleanup is best-effort and never masks the outcome: when an unlink
\* fails the remaining files are still attempted, an error response still
\* carries the pipeline's failure, and a successful run still answers success.
C21_CleanupNeverMasksOutcome ==
    cpc = "responded" =>
        /\ \A i \in DOMAIN cFiles : cFiles[i] \in cDisk => cFiles[i] \in cLocked
        /\ \A i \in DOMAIN cFiles :
            cFiles[i] \in cDisk => \E j \in DOMAIN cAttempted : cAttempted[j] = cFiles[i]
        /\ cOutcome = "success" => cResponse = <<[status |-> 200, success |-> TRUE]>>
        /\ cOutcome # "success" =>
            cResponse = <<[status |-> 500, error |-> ErrorMessage(cOutcome)]>>

C21_Witness ==
    /\ cpc = "responded"
    /\ cOutcome = "success"
    /\ cLocked = {AudioPath}
    /\ cAttempted = <<AudioPath, ChunkPath(0), ChunkPath(1)>>
    /\ cLogged = <<AudioPath>>
    /\ cDisk = {AudioPath}
    /\ cResponse[1].status = 200


(***************************************************************************)
(* The rate limiters (server/lib/rate-limit.js) as the server mounts them: *)
(* apiRateLimit on /api, then aiRateLimit on the AI routes.  Every limiter *)
(* reads and writes the one module-level requestCounts map, keyed by IP.   *)
(* A request runs its whole middleware chain in one step.                  *)
(***************************************************************************)
\* Milliseconds the model's clock may reach.
MaxNow == 60001
\* Requests one IP has counted in a window before the model stops it.
MaxCount == 62
\* Requests of the second IP.
MaxOtherRequests == 1

\* The setInterval period and age of lines 10-17.
CLEANUP_INTERVAL_MS == 60000

aiRateLimit == [name |-> "ai", windowMs |-> 60000, maxRequests |-> 10]
apiRateLimit == [name |-> "api", windowMs |-> 60000, maxRequests |-> 60]

Ips == {"ip1", "ip2"}
RequestKinds == {"api", "ai"}

\* The middleware a request of a kind passes, in order.
Chain(kind) == IF kind = "ai" THEN <<apiRateLimit, aiRateLimit>> ELSE <<apiRateLimit>>

\* !data || now - data.windowStart > windowMs
WindowOver(counts, ip, limiter, now) ==
    \/ ip \notin DOMAIN counts
    \/ now - counts[ip].windowStart > limiter.windowMs

\* Math.ceil((data.windowStart + windowMs - now) / 1000)
RetryAfter(data, limiter, now) == (data.windowStart + limiter.windowMs - now + 999) \div 1000

SetEntry(counts, ip, data) ==
    [k \in DOMAIN counts \cup {ip} |-> IF k = ip THEN data ELSE counts[k]]

\* The limiter whose test is data.count > maxRequests + 1.
rateLimitOneLate(limiter, counts, ip, now) ==
    IF WindowOver(counts, ip, limiter, now)
    THEN [counts |-> SetEntry(counts, ip, [count |-> 1, windowStart |-> now]),
          next |-> TRUE, newWindow |-> TRUE, status |-> 0, retryAfter |-> 0]
    ELSE LET data == [counts[ip] EXCEPT !.count = @ + 1]
         IN  IF data.count > limiter.maxRequests + 1
             THEN [counts |-> SetEntry(counts, ip, data), next |-> FALSE,
                   newWindow |-> FALSE, status |-> 429,
                   retryAfter |-> RetryAfter(data, limiter, now)]
             ELSE [counts |-> SetEntry(counts, ip, data), next |-> TRUE,
                   newWindow |-> FALSE, status |-> 0, retryAfter |-> 0]

\* One invocation of the middleware rateLimit(options) returns (lines 34-64).
rateLimit(limiter, counts, ip, now) ==
    IF WindowOver(counts, ip, limiter, now)
    THEN [counts |-> SetEntry(counts, ip, [count |-> 1, windowStart |-> now]),
          next |-> TRUE, newWindow |-> TRUE, status |-> 0, retryAfter |-> 0]
    ELSE LET data == [counts[ip] EXCEPT !.count = @ + 1]
         IN  IF data.count > limiter.maxRequests
             THEN [counts |-> SetEntry(counts, ip, data), next |-> FALSE,
                   newWindow |-> FALSE, status |-> 429,
                   retryAfter |-> RetryAfter(data, limiter, now)]
             ELSE [counts |-> SetEntry(counts, ip, data), next |-> TRUE,
                   newWindow |-> FALSE, status |-> 0, retryAfter |-> 0]


NoPasses == [api |-> 0, ai |-> 0]
NoneSeen == [all |-> 0, ai |-> 0]

\* The middleware chain of one request: each limiter in turn, until one
\* answers 429.  trail keeps what every limiter invoked saw and did.
RECURSIVE RunChain(_, _, _, _, _)
RunChain(chain, i, ip, now, acc) ==
    IF i > Len(chain) THEN acc
    ELSE LET limiter == chain[i]
             r == rateLimit(limiter, acc.counts, ip, now)
             before == IF r.newWindow THEN NoPasses ELSE acc.passed
             entry == [ip |-> ip, limiter |-> limiter.name, now |-> now,
                       over |-> WindowOver(acc.counts, ip, limiter, now),
                       passedBefore |-> before[limiter.name],
                       next |-> r.next, status |-> r.status,
                       retryAfter |-> r.retryAfter, data |-> r.counts[ip]]
             acc2 == [counts |-> r.counts,
                      passed |-> IF r.next
                                 THEN [before EXCEPT ![limiter.name] = @ + 1]
                                 ELSE before,
                      trail |-> Append(acc.trail, entry),
                      admitted |-> r.next]
         IN  IF r.next THEN RunChain(chain, i + 1, ip, now, acc2) ELSE acc2

InitRateLimit ==
    /\ OldFilesIdle
    /\ SplitIdle
    /\ ParallelIdle
    /\ UploadIdle
    /\ PipelineIdle
    /\ MergeIdle
    /\ LoopIdle
    /\ NormalizeIdle
    /\ TwoRunsIdle
    /\ CleanupIdle
    /\ rlNow = 0
    /\ requestCounts = <<>>
    /\ rlPassed = [ip \in Ips |-> NoPasses]
    /\ rlSeen = [ip \in Ips |-> NoneSeen]
    /\ rlTrail = <<>>

\* A request from ip reaches the server and runs through its limiters.
Request(ip, kind) ==
    /\ LET fresh == WindowOver(requestCounts, ip, apiRateLimit, rlNow)
           seen == IF fresh THEN NoneSeen ELSE rlSeen[ip]
           done == RunChain(Chain(kind), 1, ip, rlNow,
                            [counts |-> requestCounts, passed |-> rlPassed[ip],
                             trail |-> <<>>, admitted |-> TRUE])
       IN  /\ ~fresh => requestCounts[ip].count < MaxCount
           /\ ip = "ip2" => seen.all < MaxOtherRequests
           /\ requestCounts' = done.counts
           /\ rlPassed' = [rlPassed EXCEPT ![ip] = done.passed]
           /\ rlSeen' = [rlSeen EXCEPT ![ip] =
                           [all |-> seen.all + 1,
                            ai |-> seen.ai + (IF kind = "ai" THEN 1 ELSE 0)]]
           /\ rlTrail' = done.trail
    /\ UNCHANGED rlNow
    /\ UNCHANGED notRateLimit

TickSteps == {60000, 60001}

\* Time passes.
Tick(dt) ==
    /\ rlNow + dt <= MaxNow
    /\ rlNow' = rlNow + dt
    /\ UNCHANGED <<requestCounts, rlPassed, rlSeen, rlTrail>>
    /\ UNCHANGED notRateLimit

\* The setInterval callback of lines 10-17 deletes the entries it finds old
\* (its phase against the requests' clock is arbitrary).
CleanupTimer ==
    /\ rlNow > 0
    /\ requestCounts' =
         [k \in {k \in DOMAIN requestCounts :
                    ~(rlNow - requestCounts[k].windowStart > CLEANUP_INTERVAL_MS)}
             |-> requestCounts[k]]
    /\ UNCHANGED <<rlNow, rlPassed, rlSeen, rlTrail>>
    /\ UNCHANGED notRateLimit

NextRateLimit ==
    \/ \E ip \in Ips, kind \in RequestKinds : Request(ip, kind)
    \/ \E dt \in TickSteps : Tick(dt)
    \/ CleanupTimer

SpecRateLimit == InitRateLimit /\ [][NextRateLimit]_vars


Limiters == {apiRateLimit, aiRateLimit}
LimiterNamed(name) == CHOOSE limiter \in Limiters : limiter.name = name

C29_FirstTenAiRequestsAdmitted ==
    \A i \in DOMAIN rlTrail :
        (rlTrail[i].limiter = "ai" /\ rlSeen[rlTrail[i].ip].ai <= aiRateLimit.maxRequests)
            => rlTrail[i].next


(***************************************************************************)
(* The chunked upload routes (server/routes/chunked-upload.js), for one    *)
(* uploadId from the answer of POST /upload/init on.  A step is what a     *)
(* handler does between two awaits; several requests may be in progress.   *)
(* The content of a chunk file is <<index, version>>; the final file is    *)
(* the sequence of the slots its write streams have filled.                *)
(***************************************************************************)
\* Chunk writes that may be in flight at once.
MaxPendingWrites == 1

TotalChunksInputs == {1, 2}
ChunkVersions == {"a", "b"}
CompleteRequests == {1, 2}

\* upload.receivedChunks.size === upload.totalChunks
AllReceived(received, totalChunks) == Cardinality(received) = totalChunks

\* A write stream puts a chunk at its own position in the final file.
WriteSlot(file, slot, content) ==
    [k \in 1..Max(Len(file), slot) |->
        IF k = slot THEN content
        ELSE IF k <= Len(file) THEN file[k] ELSE "hole"]

InitUpload ==
    /\ OldFilesIdle
    /\ SplitIdle
    /\ ParallelIdle
    /\ PipelineIdle
    /\ MergeIdle
    /\ LoopIdle
    /\ NormalizeIdle
    /\ TwoRunsIdle
    /\ CleanupIdle
    /\ RateLimitIdle
    /\ upKnown = TRUE
    /\ upTotal \in TotalChunksInputs
    /\ upReceived = {}
    /\ upDirExists = TRUE
    /\ upDir = <<>>
    /\ upFinal = <<>>
    /\ upWrites = {}
    /\ upAsm = [c \in CompleteRequests |-> [phase |-> "idle", next |-> 0]]
    /\ upCancel = "idle"
    /\ upLog = [last |-> <<>>, done |-> {}]

\* An answer is sent: the log keeps the last one, with what the handler
\* found, and which of complete and cancel have succeeded.
Answer(req, status) ==
    upLog' = [last |-> <<[req |-> req, status |-> status, known |-> upKnown,
                          all |-> AllReceived(upReceived, upTotal)]>>,
              done |-> upLog.done \cup (IF status = 200 /\ req \in {"complete", "cancel"}
                                        THEN {req} ELSE {})]

\* POST /upload/chunk up to its await (lines 78-99).
ChunkRequest(i, v) ==
    /\ IF ~upKnown THEN Answer("chunk", 404) /\ UNCHANGED upWrites
       ELSE IF i < 0 \/ i >= upTotal THEN Answer("chunk", 400) /\ UNCHANGED upWrites
       ELSE /\ Cardinality(upWrites) < MaxPendingWrites
            /\ upWrites' = upWrites \cup {[index |-> i, version |-> v]}
            /\ UNCHANGED upLog
    /\ UNCHANGED <<upKnown, upTotal, upReceived, upDirExists, upDir, upFinal, upAsm,
                   upCancel>>
    /\ UNCHANGED notUpload

\* writeFile has settled (lines 100-115).
ChunkWritten(w) ==
    /\ w \in upWrites
    /\ upWrites' = upWrites \ {w}
    /\ IF upDirExists
       THEN /\ upDir' = [k \in DOMAIN upDir \cup {w.index} |->
                           IF k = w.index THEN <<w.index, w.version>> ELSE upDir[k]]
            /\ upReceived' = upReceived \cup {w.index}
            /\ Answer("chunk", 200)
       ELSE /\ Answer("chunk", 500)
            /\ UNCHANGED <<upDir, upReceived>>
    /\ UNCHANGED <<upKnown, upTotal, upDirExists, upFinal, upAsm, upCancel>>
    /\ UNCHANGED notUpload


\* POST /upload/complete up to createWriteStream (lines 118-151).
CompleteRequest(c) ==
    /\ upAsm[c].phase = "idle"
    /\ IF ~upKnown THEN Answer("complete", 404) /\ UNCHANGED upAsm
       ELSE IF ~AllReceived(upReceived, upTotal)
            THEN Answer("complete", 400) /\ UNCHANGED upAsm
       ELSE /\ upAsm' = [upAsm EXCEPT ![c] = [phase |-> "opening", next |-> 0]]
            /\ UNCHANGED upLog
    /\ UNCHANGED <<upKnown, upTotal, upReceived, upDirExists, upDir, upFinal, upWrites,
                   upCancel>>
    /\ UNCHANGED notUpload

\* The write stream opens the final file: created, or truncated.
AssembleOpen(c) ==
    /\ upAsm[c].phase = "opening"
    /\ upAsm' = [upAsm EXCEPT ![c].phase = "writing"]
    /\ upFinal' = <<>>
    /\ UNCHANGED <<upKnown, upTotal, upReceived, upDirExists, upDir, upWrites, upCancel,
                   upLog>>
    /\ UNCHANGED notUpload

\* One pipeline(readStream, writeStream) of the loop (lines 153-157); a
\* chunk file that is gone rejects it and the catch answers 500.
AssembleChunk(c) ==
    /\ upAsm[c].phase = "writing"
    /\ upAsm[c].next < upTotal
    /\ LET i == upAsm[c].next
       IN  IF i \in DOMAIN upDir
           THEN /\ upFinal' = WriteSlot(upFinal, i + 1, upDir[i])
                /\ upAsm' = [upAsm EXCEPT ![c].next = i + 1]
                /\ UNCHANGED upLog
           ELSE /\ Answer("complete", 500)
                /\ upAsm' = [upAsm EXCEPT ![c].phase = "done"]
                /\ UNCHANGED upFinal
    /\ UNCHANGED <<upKnown, upTotal, upReceived, upDirExists, upDir, upWrites, upCancel>>
    /\ UNCHANGED notUpload

\* cleanupChunks: the chunk files and their directory, when the upload is
\* still in activeUploads.
ChunksCleaned ==
    IF upKnown
    THEN upDir' = <<>> /\ upDirExists' = FALSE
    ELSE UNCHANGED <<upDir, upDirExists>>

\* Lines 159-181: end, stat, cleanupChunks, activeUploads.delete, answer.
AssembleEnd(c) ==
    /\ upAsm[c].phase = "writing"
    /\ upAsm[c].next = upTotal
    /\ upAsm' = [upAsm EXCEPT ![c].phase = "done"]
    /\ ChunksCleaned
    /\ upKnown' = FALSE
    /\ Answer("complete", 200)
    /\ UNCHANGED <<upTotal, upReceived, upFinal, upWrites, upCancel>>
    /\ UNCHANGED notUpload

\* GET /upload/status/:uploadId (lines 189-204).
StatusRequest ==
    /\ Answer("status", IF upKnown THEN 200 ELSE 404)
    /\ UNCHANGED <<upKnown, upTotal, upReceived, upDirExists, upDir, upFinal, upWrites,
                   upAsm, upCancel>>
    /\ UNCHANGED notUpload

\* DELETE /upload/:uploadId up to its await (lines 207-215).
CancelRequest ==
    /\ upCancel = "idle"
    /\ IF ~upKnown THEN Answer("cancel", 404) /\ UNCHANGED upCancel
       ELSE upCancel' = "cleaning" /\ UNCHANGED upLog
    /\ UNCHANGED <<upKnown, upTotal, upReceived, upDirExists, upDir, upFinal, upWrites,
                   upAsm>>
    /\ UNCHANGED notUpload

\* cleanupChunks has settled: activeUploads.delete, answer (lines 216-220).
CancelEnd ==
    /\ upCancel = "cleaning"
    /\ upCancel' = "idle"
    /\ ChunksCleaned
    /\ upKnown' = FALSE
    /\ Answer("cancel", 200)
    /\ UNCHANGED <<upTotal, upReceived, upFinal, upWrites, upAsm>>
    /\ UNCHANGED notUpload

NextUpload ==
    \/ \E i \in -1..Max(1, upTotal), v \in ChunkVersions : ChunkRequest(i, v)
    \/ \E w \in upWrites : ChunkWritten(w)
    \/ \E c \in CompleteRequests :
        \/ CompleteRequest(c)
        \/ AssembleOpen(c)
        \/ AssembleChunk(c)
        \/ AssembleEnd(c)
    \/ StatusRequest
    \/ CancelRequest
    \/ CancelEnd

SpecUpload == InitUpload /\ [][NextUpload]_vars

\* The final file holds every chunk index once, in ascending order.
Assembled ==
    /\ Len(upFinal) = upTotal
    /\ \A k \in 1..upTotal : upFinal[k] # "hole" /\ upFinal[k][1] = k - 1

\* C24: /upload/complete assembles only when every chunk index has been
\* received, else answers 400 and leaves the upload open; a completed
\* upload's final file is the chunks in ascending index order whatever the
\* order or repetition of their arrival; after a successful complete or a
\* cancel the uploadId is unknown and requests for it get 404.
C24_UploadProtocol ==
    /\ \A c \in CompleteRequests :
        upAsm[c].phase \in {"opening", "writing"} => upReceived = 0..(upTotal - 1)
    /\ \A i \in DOMAIN upLog.last :
        LET a == upLog.last[i]
        IN  /\ (a.req = "complete" /\ a.status = 400) <=>
                    (a.req = "complete" /\ a.known /\ ~a.all)
            /\ (a.req = "complete" /\ a.status = 400) => upKnown
            /\ (~a.known /\ a.req \in {"chunk", "complete", "status"}) =>
                \/ a.status = 404
                \/ a.req = "chunk" /\ a.status = 500
                \/ a.req = "complete" /\ a.status \in {200, 500}
    /\ "complete" \in upLog.done => Assembled
    /\ upLog.done # {} => ~upKnown

\* The same without the final file's content.
UploadProtocolButContent ==
    /\ \A c \in CompleteRequests :
        upAsm[c].phase \in {"opening", "writing"} => upReceived = 0..(upTotal - 1)
    /\ \A i \in DOMAIN upLog.last :
        LET a == upLog.last[i]
        IN  /\ (a.req = "complete" /\ a.status = 400) <=>
                    (a.req = "complete" /\ a.known /\ ~a.all)
            /\ (~a.known /\ a.req \in {"chunk", "complete", "status"}) =>
                \/ a.status = 404
                \/ a.req = "chunk" /\ a.status = 500
                \/ a.req = "complete" /\ a.status \in {200, 500}
    /\ upLog.done # {} => ~upKnown

\* A complete request that no other complete request overlaps assembles.
SingleCompleteAssembles ==
    ("complete" \in upLog.done /\ upAsm[2].phase = "idle") => Assembled


(***************************************************************************)
(* Uploader.parallelLimit(items, limit, fn) (public/js/uploader.js lines   *)
(* 176-195).  The items are 1..plItems.  A step is a task of the page: the *)
(* call itself, or the settling of one fn(item) with the microtasks that   *)
(* follow it (clean, the race, the loop's next iterations, the fn calls    *)
(* they schedule).                                                         *)
(***************************************************************************)
\* Items of a parallelLimit call.
MaxItems == 4
\* The limit argument (the uploader passes MAX_PARALLEL_UPLOADS, 10).
ParallelLimits == {1, 2, 3}

\* if (executing.size > limit) in place of >=.
RaceNeededAbove(size, limit) == size > limit
\* if (executing.size >= limit) await Promise.race(executing)
RaceNeeded(size, limit) == size >= limit

\* The for loop from item `next` on, until it awaits the race or runs out
\* of items: the items it has added to executing.
RECURSIVE LoopFrom(_, _, _, _)
LoopFrom(next, items, limit, executing) ==
    IF next > items THEN [next |-> next, executing |-> executing, state |-> "all"]
    ELSE LET added == executing \cup {next}
         IN  IF RaceNeeded(Cardinality(added), limit)
             THEN [next |-> next + 1, executing |-> added, state |-> "race"]
             ELSE LoopFrom(next + 1, items, limit, added)

InitParallel ==
    /\ OldFilesIdle
    /\ SplitIdle
    /\ PipelineIdle
    /\ MergeIdle
    /\ LoopIdle
    /\ NormalizeIdle
    /\ TwoRunsIdle
    /\ CleanupIdle
    /\ RateLimitIdle
    /\ UploadIdle
    /\ plState = "idle"
    /\ plItems \in 0..MaxItems
    /\ plLimit \in ParallelLimits
    /\ plNext = 1
    /\ plExecuting = {}
    /\ plInvoked = [item \in 1..plItems |-> 0]
    /\ plSettled = {}
    /\ plFailed = {}

\* The loop runs on: every promise it creates calls fn(item) in a microtask.
LoopRuns(executing) ==
    LET run == LoopFrom(plNext, plItems, plLimit, executing)
    IN  /\ plNext' = run.next
        /\ plExecuting' = run.executing
        /\ plInvoked' = [item \in 1..plItems |->
                           plInvoked[item] + (IF item \in run.executing \ executing
                                              THEN 1 ELSE 0)]
        /\ plState' = IF run.state = "race" THEN "race"
                      ELSE IF plFailed' # {} THEN "rejected"
                      ELSE IF plSettled' = 1..plItems THEN "resolved"
                      ELSE "all"

\* parallelLimit is called.
ParallelStart ==
    /\ plState = "idle"
    /\ UNCHANGED <<plItems, plLimit, plSettled, plFailed>>
    /\ LoopRuns({})
    /\ UNCHANGED notParallel

\* fn(item) settles: clean removes it from executing; a pending race
\* settles with it and the loop goes on or parallelLimit rejects; a pending
\* Promise.all rejects with it or resolves with the last one.
ItemSettles(item, ok) ==
    /\ item \in 1..plItems
    /\ plInvoked[item] > 0
    /\ item \notin plSettled
    /\ plSettled' = plSettled \cup {item}
    /\ plFailed' = IF ok THEN plFailed ELSE plFailed \cup {item}
    /\ IF plState = "race" /\ ok THEN LoopRuns(plExecuting \ {item})
       ELSE /\ plExecuting' = plExecuting \ {item}
            /\ plState' = IF plState \in {"race", "all"} /\ ~ok THEN "rejected"
                          ELSE IF plState = "all" /\ plSettled' = 1..plItems
                               THEN "resolved"
                          ELSE plState
            /\ UNCHANGED <<plNext, plInvoked>>
    /\ UNCHANGED <<plItems, plLimit>>
    /\ UNCHANGED notParallel

NextParallel ==
    \/ ParallelStart
    \/ \E item \in 1..MaxItems, ok \in BOOLEAN : ItemSettles(item, ok)

SpecParallel == InitParallel /\ [][NextParallel]_vars

\* The invocations of fn in flight.
InFlightItems == {item \in 1..plItems : plInvoked[item] > 0 /\ item \notin plSettled}

\* C25: parallelLimit never has more than limit invocations of fn in flight,
\* whatever the order in which they complete; when none fails it has invoked
\* fn exactly once per item and resolves only after all have completed.
C25_AtMostLimitInFlight ==
    /\ Cardinality(InFlightItems) <= plLimit
    /\ \A item \in 1..plItems : plInvoked[item] <= 1
    /\ plState = "resolved" =>
        /\ plFailed = {}
        /\ plSettled = 1..plItems
        /\ \A item \in 1..plItems : plInvoked[item] = 1
    /\ (plFailed = {} /\ plSettled = 1..plItems /\ plState # "idle") => plState = "resolved"

C25_Witness ==
    /\ plState = "race"
    /\ plItems = MaxItems
    /\ plLimit = 2
    /\ plSettled = {2}
    /\ InFlightItems = {1, 3}
    /\ plInvoked[MaxItems] = 0


(***************************************************************************)
(* The loop of splitAudioIntoChunks for whatever chunkMinutes the request  *)
(* body carries: the handler takes the number as it comes (lines 94,       *)
(* 133-135).  The number is given in quarters of a minute, so that         *)
(* chunkMinutes = 0.25, 0.5, ... are among the inputs.                     *)
(***************************************************************************)
\* Iterations of the loop the model follows.
MaxIterations == 5

\* chunkMinutes * 4: a quarter, a half, three quarters of a minute, 1, 4 and
\* 20 minutes.
QuarterMinutesInputs == {1, 2, 3, 4, 16, 80}

\* Math.min(userChunkMinutes * 60, MAX_CHUNK_DURATION_SECONDS), for a
\* chunkMinutes that is present.
ChunkDurationSecondsOfQuarters(q) == Min(q * 15, MAX_CHUNK_DURATION_SECONDS)

InitSplit ==
    /\ OldFilesIdle
    /\ PipelineIdle
    /\ MergeIdle
    /\ LoopIdle
    /\ NormalizeIdle
    /\ TwoRunsIdle
    /\ CleanupIdle
    /\ RateLimitIdle
    /\ UploadIdle
    /\ ParallelIdle
    /\ spc = "idle"
    /\ sQuarters \in QuarterMinutesInputs
    /\ sDuration \in Durations
    /\ sChunkSeconds = ChunkDurationSecondsOfQuarters(sQuarters)
    /\ sStart = 0
    /\ sPrev = 0
    /\ sCount = 0

\* The handler decides to chunk and splitAudioIntoChunks starts (lines
\* 139-144, 170-181; part_001 lines 65-76).
SplitStart ==
    /\ spc = "idle"
    /\ spc' = IF ~NeedsChunking(sDuration, 1000000, sChunkSeconds) THEN "single"
              ELSE IF IsShortAudio(sDuration, sChunkSeconds) THEN "returned"
              ELSE IF sStart < sDuration THEN "looping" ELSE "returned"
    /\ UNCHANGED <<sQuarters, sDuration, sChunkSeconds, sStart, sPrev, sCount>>
    /\ UNCHANGED notSplit

\* One iteration whose ffmpeg run succeeds (part_001 lines 78-112).
SplitIteration ==
    /\ spc = "looping"
    /\ sCount < MaxIterations
    /\ LET endTime == ChunkEndTime(sStart, sChunkSeconds, sDuration)
           next == NextStartTime(endTime, CHUNK_OVERLAP_SECONDS)
       IN  /\ sPrev' = sStart
           /\ sStart' = next
           /\ sCount' = sCount + 1
           /\ spc' = IF RemainderIsShort(sDuration, next, CHUNK_OVERLAP_SECONDS)
                        \/ ~(next < sDuration)
                     THEN "returned" ELSE "looping"
    /\ UNCHANGED <<sQuarters, sDuration, sChunkSeconds>>
    /\ UNCHANGED notSplit

\* An iteration whose ffmpeg run fails: the split rejects.
SplitIterationFails ==
    /\ spc = "looping"
    /\ spc' = "rejected"
    /\ UNCHANGED <<sQuarters, sDuration, sChunkSeconds, sStart, sPrev, sCount>>
    /\ UNCHANGED notSplit

NextSplit ==
    \/ SplitStart
    \/ SplitIteration
    \/ SplitIterationFails

SpecSplit == InitSplit /\ [][NextSplit]_vars

\* C26: for every duration and every chunkMinutes the handler accepts, each
\* iteration of the loop strictly advances startTime (so the loop ends and
\* the chunk list is finite).
C26_StartTimeAdvances == sCount > 0 => sStart > sPrev


\* The rebased segments of the chunk all start at or after the chunk's start
\* (their chunk-relative starts are >= 0).
RebasedStartsNonNegative == \A i \in DOMAIN mNew : mNew[i].start >= mChunkStart

\* C27: when a non-first chunk is merged and all of its chunk-relative segment
\* starts are >= 0, the merge drops none of the chunk's rebased segments (they
\* are the tail of the result), and the result is the same for every
\* overlapSeconds argument.
C27_NewSegmentsAllKept ==
    (mpc = "returned" /\ mChunkStart > 0 /\ RebasedStartsNonNegative) =>
        /\ Len(mResult) >= Len(mNew)
        /\ SubSeq(mResult, Len(mResult) - Len(mNew) + 1, Len(mResult)) = mNew
        /\ \A overlapSeconds \in MergeOverlaps :
               mergeChunkSegments(mExisting, mNew, mChunkStart, overlapSeconds) = mResult

\* C27's case: a chunk starting at 210 s, merged with the 30 s overlap into a
\* transcript of which one segment is kept and one dropped; the chunk's two
\* segments, both starting one second into the chunk, are in the result.
C27_Witness ==
    /\ mpc = "returned"
    /\ mChunkStart = 210
    /\ mOverlap = CHUNK_OVERLAP_SECONDS
    /\ Len(mExisting) = 2
    /\ Len(mNew) = 2
    /\ mNew[1].start = 211
    /\ mNew[2].start = 211
    /\ mExisting[1].end = 211
    /\ mExisting[2].end = 212
    /\ Len(mResult) = 3


(***************************************************************************)
(* processTranscription on transcripts with more speaker codes than the    *)
(* default label list has labels.                                          *)
(***************************************************************************)
\* Segments of the longest transcript.
MaxSpeakerSegs == 5

\* Codes the diarizer may give: more than the four default labels.
SpeakerCodes == {"A", "D", "E", "F", "G"}

SpeakerSegments ==
    {[id |-> BackendId, start |-> 0, end |-> 5, text |-> "alpha", speaker |-> sp] :
        sp \in SpeakerCodes}

InitSpeakers ==
    /\ OldFilesIdle
    /\ PipelineIdle
    /\ MergeIdle
    /\ LoopIdle
    /\ TwoRunsIdle
    /\ CleanupIdle
    /\ RateLimitIdle
    /\ UploadIdle
    /\ ParallelIdle
    /\ SplitIdle
    /\ npc = "idle"
    /\ nSegments \in UNION {[1..n -> SpeakerSegments] : n \in 1..MaxSpeakerSegs}
    /\ nLabels = DefaultUnknownLabels
    /\ nOut = <<>>

SpecSpeakers == InitSpeakers /\ [][NextNormalize]_vars

\* C28: within one processTranscription run with the default labels, two
\* different single-letter speaker codes never get the same display name.
C28_DistinctCodesDistinctNames ==
    npc = "returned" =>
        \A i, j \in DOMAIN nSegments :
            (/\ IsGenericLabel(nSegments[i].speaker)
             /\ IsGenericLabel(nSegments[j].speaker)
             /\ nSegments[i].speaker # nSegments[j].speaker)
            => nOut[i].speaker # nOut[j].speaker


(***************************************************************************)
(* cleanupOldFiles (lib/cleanup.js) beside one /transcribe run.  The       *)
(* uploads directory holds the files of one session; oDisk gives each      *)
(* file's mtime.  One action is one event-loop task: cleanupOldFiles is    *)
(* synchronous and runs whole between two steps of the run.                *)
(***************************************************************************)
\* The clock stops here: two days and a millisecond.
MaxClock == 172800001

HOUR_MS == 60 * 60 * 1000

\* maxAgeHours of POST /api/uploads/cleanup; the timer passes 24 hours.
MaxAgeHoursInputs == {0, 24}

\* Time passes between two tasks: a day, or a day and a millisecond.
ClockSteps == {24 * HOUR_MS, 24 * HOUR_MS + 1}

SessionId == "s1"
SessionVideo == "s1.mp4"
SessionAudio == "s1.mp3"
SessionChunk == "s1_chunk_0.mp3"

\* file.match(/^([0-9a-f]{8}-...)/i): the session id a file name starts with.
SessionOf(file) == SessionId

isSessionActive(sessionId) == sessionId \in activeSessions

RunInProgress == opc \in {"extracting", "splitting", "transcribing"}

Unlink(d, files) == [f \in (DOMAIN d) \ files |-> d[f]]

\* The files cleanupOldFiles deletes: not of an active session, and older
\* than maxAgeMs.
OldFiles(d, now, maxAgeMs) ==
    {f \in DOMAIN d : /\ ~isSessionActive(SessionOf(f))
                      /\ now - d[f] > maxAgeMs}

InitOldFiles ==
    /\ PipelineIdle
    /\ MergeIdle
    /\ LoopIdle
    /\ NormalizeIdle
    /\ TwoRunsIdle
    /\ CleanupIdle
    /\ RateLimitIdle
    /\ UploadIdle
    /\ ParallelIdle
    /\ SplitIdle
    /\ opc = "idle"
    /\ oNow = 0
    /\ oDisk = [f \in {SessionVideo} |-> 0]
    /\ activeSessions = {}
    /\ oRemoved = {}

ClockTick(dt) ==
    /\ oNow + dt <= MaxClock
    /\ oNow' = oNow + dt
    /\ UNCHANGED <<opc, oDisk, activeSessions, oRemoved>>
    /\ UNCHANGED notOldFiles

\* POST /api/transcribe arrives: the handler starts ffmpeg on the video.
TranscribeArrives ==
    /\ opc = "idle"
    /\ opc' = "extracting"
    /\ UNCHANGED <<oNow, oDisk, activeSessions, oRemoved>>
    /\ UNCHANGED notOldFiles

\* extractAudio ends: the audio file is written, or ffmpeg fails and the
\* catch block cleans up.
AudioExtracted ==
    /\ opc = "extracting"
    /\ IF SessionVideo \in DOMAIN oDisk
       THEN /\ opc' = "splitting"
            /\ oDisk' = [f \in DOMAIN oDisk \cup {SessionAudio} |->
                            IF f = SessionAudio THEN oNow ELSE oDisk[f]]
       ELSE /\ opc' = "failed"
            /\ oDisk' = Unlink(oDisk, {SessionAudio, SessionChunk})
    /\ UNCHANGED <<oNow, activeSessions, oRemoved>>
    /\ UNCHANGED notOldFiles

\* splitAudioIntoChunks ends: a chunk file is written, or ffmpeg fails.
ChunkWrittenFromAudio ==
    /\ opc = "splitting"
    /\ IF SessionAudio \in DOMAIN oDisk
       THEN /\ opc' = "transcribing"
            /\ oDisk' = [f \in DOMAIN oDisk \cup {SessionChunk} |->
                            IF f = SessionChunk THEN oNow ELSE oDisk[f]]
       ELSE /\ opc' = "failed"
            /\ oDisk' = Unlink(oDisk, {SessionAudio, SessionChunk})
    /\ UNCHANGED <<oNow, activeSessions, oRemoved>>
    /\ UNCHANGED notOldFiles

\* The chunk's API call ends: the handler answers and cleans up its files.
TranscribeAnswers ==
    /\ opc = "transcribing"
    /\ opc' = IF SessionChunk \in DOMAIN oDisk THEN "done" ELSE "failed"
    /\ oDisk' = Unlink(oDisk, {SessionAudio, SessionChunk})
    /\ UNCHANGED <<oNow, activeSessions, oRemoved>>
    /\ UNCHANGED notOldFiles

\* cleanupOldFiles(maxAgeMs), from the timer or from POST /api/uploads/cleanup.
cleanupOldFiles(maxAgeHours) ==
    /\ LET deleted == OldFiles(oDisk, oNow, maxAgeHours * HOUR_MS)
       IN  /\ oDisk' = Unlink(oDisk, deleted)
           /\ oRemoved' = IF RunInProgress THEN oRemoved \cup deleted ELSE oRemoved
    /\ UNCHANGED <<opc, oNow, activeSessions>>
    /\ UNCHANGED notOldFiles

NextOldFiles ==
    \/ \E dt \in ClockSteps : ClockTick(dt)
    \/ TranscribeArrives
    \/ AudioExtracted
    \/ ChunkWrittenFromAudio
    \/ TranscribeAnswers
    \/ \E maxAgeHours \in MaxAgeHoursInputs : cleanupOldFiles(maxAgeHours)

SpecOldFiles == InitOldFiles /\ [][NextOldFiles]_vars

\* C30: while a /transcribe run of a session is in progress the session counts
\* as active, and cleanupOldFiles deletes none of the session's video, audio
\* or chunk files, whatever their age.
C30_RunningSessionKeepsFiles ==
    /\ RunInProgress => isSessionActive(SessionId)
    /\ oRemoved = {}

=============================================================================
